---- MODULE Spec2Model ----
(***************************************************************************)
(* A model of the vocabulator word catalog: the SQLite-backed              *)
(* WordRepository, the WordService that orchestrates it, the CSV import    *)
(* and export pipeline, and the filtered listing queries.                  *)
(*                                                                         *)
(* Text is modelled as a sequence of one-character strings, so that        *)
(* substring search, LIKE patterns, JSON encoding and CSV quoting are      *)
(* computed character by character as the code and the engine do.          *)
(***************************************************************************)
EXTENDS Naturals, Integers, Sequences, FiniteSets, TLC

VARIABLES
    db,       \* the words table, its AUTOINCREMENT counter and the clock
    q,        \* the repository query being answered: operation, filter, outcome
    procs,    \* concurrent callers: the service call each one is running
    lastCall, \* sequential caller: the call that returned last, the store before it
    prevCall, \* sequential caller: operation, word text and error of the call before
    exported, \* the output of the last export and the rows it was taken from
    lookup    \* the dictionary call that returned last: its input, reply and outcome

vars == <<db, q, procs, lastCall, prevCall, exported, lookup>>

-----------------------------------------------------------------------------
(* Bounds of the model.                                                    *)

\* Largest number of rows a sample store holds.
MaxRows == 3

\* Largest LIMIT / OFFSET value a sample filter carries.
MaxPage == 2

\* Calls begin only while the store has seen fewer writes than this.
MaxClock == 3

\* Largest number of rows a store that is exported holds.
MaxExportRows == 2

-----------------------------------------------------------------------------
(* Characters and strings.                                                 *)

\* The byte value of each character the model uses.
Ord(c) ==
    CASE c = "\n" -> 10  [] c = " " -> 32   [] c = "\"" -> 34 [] c = "%" -> 37
      [] c = "&" -> 38   [] c = "," -> 44   [] c = "-" -> 45  [] c = "0" -> 48
      [] c = "1" -> 49   [] c = "2" -> 50   [] c = "3" -> 51  [] c = "5" -> 53
      [] c = "8" -> 56   [] c = "<" -> 60   [] c = ">" -> 62  [] c = "A" -> 65
      [] c = "B" -> 66   [] c = "E" -> 69   [] c = "H" -> 72  [] c = "I" -> 73
      [] c = "L" -> 76   [] c = "P" -> 80   [] c = "T" -> 84  [] c = "[" -> 91
      [] c = "\\" -> 92  [] c = "]" -> 93   [] c = "_" -> 95  [] c = "a" -> 97
      [] c = "b" -> 98   [] c = "c" -> 99   [] c = "e" -> 101 [] c = "h" -> 104
      [] c = "i" -> 105  [] c = "k" -> 107  [] c = "l" -> 108 [] c = "n" -> 110
      [] c = "p" -> 112  [] c = "r" -> 114  [] c = "s" -> 115 [] c = "t" -> 116
      [] c = "u" -> 117  [] c = "x" -> 120  [] c = "y" -> 121

\* The upper-case ASCII letters and their lower-case forms (SQLite LIKE,
\* strings.ToLower).
LowerOf(c) ==
    CASE c = "A" -> "a" [] c = "B" -> "b" [] c = "C" -> "c" [] c = "D" -> "d"
      [] c = "E" -> "e" [] c = "F" -> "f" [] c = "G" -> "g" [] c = "H" -> "h"
      [] c = "I" -> "i" [] c = "J" -> "j" [] c = "K" -> "k" [] c = "L" -> "l"
      [] c = "M" -> "m" [] c = "N" -> "n" [] c = "O" -> "o" [] c = "P" -> "p"
      [] c = "Q" -> "q" [] c = "R" -> "r" [] c = "S" -> "s" [] c = "T" -> "t"
      [] c = "U" -> "u" [] c = "V" -> "v" [] c = "W" -> "w" [] c = "X" -> "x"
      [] c = "Y" -> "y" [] c = "Z" -> "z"
      [] OTHER -> c

\* Concatenation of a sequence of strings, sep between two neighbours
\* (strings.Join).
RECURSIVE Join(_, _)
Join(parts, sep) ==
    IF parts = <<>> THEN <<>>
    ELSE IF Len(parts) = 1 THEN parts[1]
    ELSE parts[1] \o sep \o Join(Tail(parts), sep)

\* Flattening of a sequence of strings.
RECURSIVE Concat(_)
Concat(parts) ==
    IF parts = <<>> THEN <<>> ELSE Head(parts) \o Concat(Tail(parts))

\* The elements of a sequence.
Range(s) == {s[i] : i \in 1..Len(s)}

-----------------------------------------------------------------------------
(* Go values: optional strings and slices.                                 *)

\* A *string (and sql.NullString): nil, or a pointer to a string.
NilString == [Valid |-> FALSE, String |-> <<>>]
StringPtr(s) == [Valid |-> TRUE, String |-> s]

\* A []string: the nil slice, or a slice of elements.
NilSlice == [IsNil |-> TRUE, Elems |-> <<>>]
Slice(elems) == [IsNil |-> FALSE, Elems |-> elems]

\* Errors, by their message.
NoError == "nil"
ErrNoRows == "sql: no rows in result set"
ErrUniqueWord == "failed to insert word: UNIQUE constraint failed: words.word"
ErrUpdateUniqueWord == "failed to update word: UNIQUE constraint failed: words.word"
ErrQuerySyntax == "failed to query words: near \"OFFSET\": syntax error"

-----------------------------------------------------------------------------
(* encoding/json as the repository uses it on the tags column.             *)

\* json.Marshal of one character inside a string (HTML-safe escaping on).
JSONEscape(c) ==
    CASE c = "\"" -> <<"\\", "\"">>
      [] c = "\\" -> <<"\\", "\\">>
      [] c = "\n" -> <<"\\", "n">>
      [] c = "<"  -> <<"\\", "u", "0", "0", "3", "c">>
      [] c = ">"  -> <<"\\", "u", "0", "0", "3", "e">>
      [] c = "&"  -> <<"\\", "u", "0", "0", "2", "6">>
      [] OTHER -> <<c>>

\* json.Marshal of a string.
JSONString(s) ==
    <<"\"">> \o Concat([i \in 1..Len(s) |-> JSONEscape(s[i])]) \o <<"\"">>

\* json.Marshal(word.Tags): null for the nil slice, else an array of strings.
MarshalTags(tags) ==
    IF tags.IsNil THEN <<"n", "u", "l", "l">>
    ELSE <<"[">>
         \o Join([i \in 1..Len(tags.Elems) |-> JSONString(tags.Elems[i])], <<",">>)
         \o <<"]">>

\* The character a \uXXXX escape of the encoder stands for.
JSONUnicode(h) ==
    CASE h = <<"0", "0", "3", "c">> -> "<"
      [] h = <<"0", "0", "3", "e">> -> ">"
      [] h = <<"0", "0", "2", "6">> -> "&"

\* The character a two-character escape stands for.
JSONUnescape(c) == IF c = "n" THEN "\n" ELSE c

\* The scan of a JSON array of strings from position i: inStr says whether
\* the scan is inside a string literal, cur is the string read so far and
\* out the strings completed.
RECURSIVE JSONScan(_, _, _, _, _)
JSONScan(js, i, inStr, cur, out) ==
    IF i > Len(js) THEN out
    ELSE IF ~inStr
         THEN JSONScan(js, i + 1, js[i] = "\"", <<>>, out)
    ELSE IF js[i] = "\""
         THEN JSONScan(js, i + 1, FALSE, <<>>, Append(out, cur))
    ELSE IF js[i] = "\\"
         THEN IF js[i + 1] = "u"
              THEN JSONScan(js, i + 6, TRUE,
                            Append(cur, JSONUnicode(SubSeq(js, i + 2, i + 5))), out)
              ELSE JSONScan(js, i + 2, TRUE,
                            Append(cur, JSONUnescape(js[i + 1])), out)
    ELSE JSONScan(js, i + 1, TRUE, Append(cur, js[i]), out)

\* json.Unmarshal([]byte(tagsJSON), &word.Tags).
UnmarshalTags(js) ==
    IF js = <<"n", "u", "l", "l">> THEN NilSlice
    ELSE Slice(JSONScan(js, 1, FALSE, <<>>, <<>>))

-----------------------------------------------------------------------------
(* The SQLite engine, as far as the repository's statements use it.        *)

\* The LIKE operator: % matches any run of characters, _ any one character,
\* every other character matches itself with ASCII letters compared without
\* regard to case (the engine's default; no ESCAPE clause is given).
RECURSIVE Like(_, _)
Like(pattern, s) ==
    IF pattern = <<>> THEN s = <<>>
    ELSE IF Head(pattern) = "%"
         THEN Like(Tail(pattern), s) \/ (s # <<>> /\ Like(pattern, Tail(s)))
    ELSE IF s = <<>> THEN FALSE
    ELSE IF Head(pattern) = "_" THEN Like(Tail(pattern), Tail(s))
    ELSE LowerOf(Head(pattern)) = LowerOf(Head(s)) /\ Like(Tail(pattern), Tail(s))

\* Comparison of two TEXT values under the BINARY collation (memcmp, then
\* length): -1, 0 or 1.
RECURSIVE TextCompare(_, _)
TextCompare(a, b) ==
    IF a = <<>> /\ b = <<>> THEN 0
    ELSE IF a = <<>> THEN -1
    ELSE IF b = <<>> THEN 1
    ELSE IF Ord(Head(a)) < Ord(Head(b)) THEN -1
    ELSE IF Ord(Head(a)) > Ord(Head(b)) THEN 1
    ELSE TextCompare(Tail(a), Tail(b))

-----------------------------------------------------------------------------
(* The words table (migrations/000001_create_words_table.up.sql).          *)
(* A row is [id, word, source, date_learned, part_of_speech,               *)
(* example_sentence, tags, created_at, updated_at]; tags holds the JSON    *)
(* text, the two optional columns hold NULL or a text.                     *)

\* A store with no rows, as the migration leaves it.
EmptyDB == [words |-> {}, seq |-> 0, clock |-> 0]

\* The value of a column of a row.
Column(row, name) ==
    CASE name = "word" -> row.word
      [] name = "source" -> row.source
      [] name = "tags" -> row.tags
      [] name = "date_learned" -> row.date_learned

\* One condition of a WHERE clause, evaluated on a row.
Satisfies(row, cond) ==
    CASE cond.op = "LIKE" -> Like(cond.arg, Column(row, cond.column))
      [] cond.op = "="    -> Column(row, cond.column) = cond.arg
      [] cond.op = ">="   -> TextCompare(Column(row, cond.column), cond.arg) >= 0
      [] cond.op = "<="   -> TextCompare(Column(row, cond.column), cond.arg) <= 0
      [] cond.op = "<"    -> TextCompare(Column(row, cond.column), cond.arg) < 0

\* The rows a WHERE clause of AND-ed conditions selects.
Where(rows, conditions) ==
    {r \in rows : \A i \in 1..Len(conditions) : Satisfies(r, conditions[i])}

OrderedBefore_idAscending(a, b) ==
    \/ TextCompare(a.date_learned, b.date_learned) = 1
    \/ TextCompare(a.date_learned, b.date_learned) = 0 /\ a.id < b.id

\* ORDER BY date_learned DESC, id DESC: whether row a comes before row b.
OrderedBefore(a, b) ==
    \/ TextCompare(a.date_learned, b.date_learned) = 1
    \/ TextCompare(a.date_learned, b.date_learned) = 0 /\ a.id > b.id

\* The rows of a set in the ORDER BY order.
RECURSIVE OrderBy(_)
OrderBy(rows) ==
    IF rows = {} THEN <<>>
    ELSE LET first == CHOOSE r \in rows :
                          \A o \in rows \ {r} : OrderedBefore(r, o)
         IN  <<first>> \o OrderBy(rows \ {first})

\* LIMIT and OFFSET applied to an ordered result; a query without a LIMIT
\* clause returns every row.
LimitOffset(ordered, query) ==
    IF ~query.hasLimit THEN ordered
    ELSE LET from == (IF query.hasOffset THEN query.offset ELSE 0) + 1
             to   == from + query.limit - 1
         IN  SubSeq(ordered, from, IF to < Len(ordered) THEN to ELSE Len(ordered))

\* The engine rejects OFFSET without a LIMIT before it: the select grammar
\* is  ORDER BY ... [LIMIT expr [OFFSET expr]].
SyntaxOK(query) == query.hasOffset => query.hasLimit

-----------------------------------------------------------------------------
(* SQLiteRepository.                                                       *)

\* A models.Word as a caller hands it to Create.
NewWord(word, source, date, pos, example, tags) ==
    [ID |-> 0, Word |-> word, Source |-> source, DateLearned |-> date,
     PartOfSpeech |-> pos, ExampleSentence |-> example, Tags |-> tags,
     CreatedAt |-> 0, UpdatedAt |-> 0]

\* The filter with no field set.
EmptyFilter ==
    [Search |-> <<>>, Source |-> <<>>, Tag |-> <<>>, FromDate |-> <<>>,
     ToDate |-> <<>>, Limit |-> 0, Offset |-> 0]

\* scanWord / scanWordFromRows: a row as a models.Word.
scanWord(row) ==
    [ID |-> row.id, Word |-> row.word, Source |-> row.source,
     DateLearned |-> row.date_learned,
     PartOfSpeech |-> row.part_of_speech,
     ExampleSentence |-> row.example_sentence,
     Tags |-> UnmarshalTags(row.tags),
     CreatedAt |-> row.created_at, UpdatedAt |-> row.updated_at]

\* The zero models.Word, returned beside an error.
NoWord ==
    [ID |-> 0, Word |-> <<>>, Source |-> <<>>, DateLearned |-> <<>>,
     PartOfSpeech |-> NilString, ExampleSentence |-> NilString,
     Tags |-> NilSlice, CreatedAt |-> 0, UpdatedAt |-> 0]

\* buildListQuery, search: word LIKE '%' + Search + '%'.
searchCondition(filter) ==
    IF filter.Search # <<>>
    THEN <<[column |-> "word", op |-> "LIKE",
            arg |-> <<"%">> \o filter.Search \o <<"%">>]>>
    ELSE <<>>

\* buildListQuery, source: source = Source.
sourceCondition(filter) ==
    IF filter.Source # <<>>
    THEN <<[column |-> "source", op |-> "=", arg |-> filter.Source]>>
    ELSE <<>>

\* buildListQuery, tag: tags LIKE '%"' + Tag + '"%' on the JSON text.
tagCondition(filter) ==
    IF filter.Tag # <<>>
    THEN <<[column |-> "tags", op |-> "LIKE",
            arg |-> <<"%", "\"">> \o filter.Tag \o <<"\"", "%">>]>>
    ELSE <<>>

\* buildListQuery, from date: date_learned >= FromDate.
fromDateCondition(filter) ==
    IF filter.FromDate # <<>>
    THEN <<[column |-> "date_learned", op |-> ">=", arg |-> filter.FromDate]>>
    ELSE <<>>

toDateCondition_strict(filter) ==
    IF filter.ToDate # <<>>
    THEN <<[column |-> "date_learned", op |-> "<", arg |-> filter.ToDate]>>
    ELSE <<>>

\* buildListQuery, to date: date_learned <= ToDate.
toDateCondition(filter) ==
    IF filter.ToDate # <<>>
    THEN <<[column |-> "date_learned", op |-> "<=", arg |-> filter.ToDate]>>
    ELSE <<>>

\* buildListQuery: the WHERE conditions in the order the code appends them,
\* then ORDER BY, LIMIT and OFFSET unless the query only counts.
buildListQuery(filter, countOnly) ==
    [conditions |-> searchCondition(filter) \o sourceCondition(filter)
                    \o tagCondition(filter) \o fromDateCondition(filter)
                    \o toDateCondition(filter),
     countOnly |-> countOnly,
     hasLimit  |-> ~countOnly /\ filter.Limit > 0,
     limit     |-> filter.Limit,
     hasOffset |-> ~countOnly /\ filter.Offset > 0,
     offset    |-> filter.Offset]

\* List: the words the list query returns, or the engine's error.
List(d, filter) ==
    LET query == buildListQuery(filter, FALSE)
        rows  == LimitOffset(OrderBy(Where(d.words, query.conditions)), query)
    IN  IF ~SyntaxOK(query)
        THEN [err |-> ErrQuerySyntax, words |-> <<>>]
        ELSE [err |-> NoError,
              words |-> [i \in 1..Len(rows) |-> scanWord(rows[i])]]

Count_paged(d, filter) ==
    LET query == buildListQuery(filter, FALSE)
    IN  IF ~SyntaxOK(query)
        THEN [err |-> ErrQuerySyntax, count |-> 0]
        ELSE [err |-> NoError,
              count |-> Len(LimitOffset(OrderBy(Where(d.words, query.conditions)),
                                        query))]

\* Count: SELECT COUNT(*) under the same conditions.
Count(d, filter) ==
    LET query == buildListQuery(filter, TRUE)
    IN  IF ~SyntaxOK(query)
        THEN [err |-> ErrQuerySyntax, count |-> 0]
        ELSE [err |-> NoError,
              count |-> Cardinality(Where(d.words, query.conditions))]

\* GetByWord: the row whose word column equals the text.
GetByWord(d, text) ==
    IF \E r \in d.words : r.word = text
    THEN [err |-> NoError, word |-> scanWord(CHOOSE r \in d.words : r.word = text)]
    ELSE [err |-> ErrNoRows, word |-> NoWord]

\* GetByID: the row with the id.
GetByID(d, id) ==
    IF \E r \in d.words : r.id = id
    THEN [err |-> NoError, word |-> scanWord(CHOOSE r \in d.words : r.id = id)]
    ELSE [err |-> ErrNoRows, word |-> NoWord]

\* (Variant: INTEGER PRIMARY KEY without AUTOINCREMENT, one more than the
\* largest id the table holds now.)
NextID_rowid(d) ==
    IF d.words = {} THEN 1
    ELSE (CHOOSE i \in {r.id : r \in d.words} : \A r \in d.words : r.id <= i) + 1

\* The id an AUTOINCREMENT insert assigns: one more than the largest id the
\* table ever held.
NextID(d) == d.seq + 1

\* Whether the UNIQUE constraint on words.word admits a row with the text.
\* (Variant: a table without the constraint.)
UniqueOK_off(rows, text) == TRUE

\* The UNIQUE constraint on words.word.
UniqueOK(rows, text) == \A r \in rows : r.word # text

\* Create: the INSERT, refused by the UNIQUE constraint on word; on success
\* the word gets its id and both timestamps.
Create(d, word) ==
    IF ~UniqueOK(d.words, word.Word)
    THEN [db |-> d, err |-> ErrUniqueWord, word |-> NoWord]
    ELSE LET now == d.clock + 1
             row == [id |-> NextID(d), word |-> word.Word, source |-> word.Source,
                     date_learned |-> word.DateLearned,
                     part_of_speech |-> word.PartOfSpeech,
                     example_sentence |-> word.ExampleSentence,
                     tags |-> MarshalTags(word.Tags),
                     created_at |-> now, updated_at |-> now]
         IN  [db |-> [words |-> d.words \cup {row}, seq |-> NextID(d), clock |-> now],
              err |-> NoError,
              word |-> [word EXCEPT !.ID = NextID(d), !.CreatedAt = now,
                                    !.UpdatedAt = now]]

\* Update: the UPDATE of the row with the word's id.  A statement that
\* matches no row changes nothing and is no error; one that would give two
\* rows the same word is refused by the UNIQUE constraint.
Update(d, word) ==
    LET now    == d.clock + 1
        target == {r \in d.words : r.id = word.ID}
        others == d.words \ target
        set(r) == [r EXCEPT !.word = word.Word, !.source = word.Source,
                            !.date_learned = word.DateLearned,
                            !.part_of_speech = word.PartOfSpeech,
                            !.example_sentence = word.ExampleSentence,
                            !.tags = MarshalTags(word.Tags),
                            !.updated_at = now]
    IN  IF target # {} /\ ~UniqueOK(others, word.Word)
        THEN [db |-> d, err |-> ErrUpdateUniqueWord, word |-> NoWord]
        ELSE IF target = {}
        THEN [db |-> d, err |-> NoError, word |-> [word EXCEPT !.UpdatedAt = now]]
        ELSE [db |-> [d EXCEPT !.words = others \cup {set(r) : r \in target},
                               !.clock = now],
              err |-> NoError, word |-> [word EXCEPT !.UpdatedAt = now]]

\* (Variant: RowsAffected is not looked at.)
Delete_silent(d, id) ==
    [db |-> [d EXCEPT !.words = {r \in d.words : r.id # id}], err |-> NoError]

\* Delete: the DELETE of the row with the id; no row affected is ErrNoRows.
Delete(d, id) ==
    IF \A r \in d.words : r.id # id
    THEN [db |-> d, err |-> ErrNoRows]
    ELSE [db |-> [d EXCEPT !.words = {r \in d.words : r.id # id}], err |-> NoError]

\* (Variant: a query without rows is not reported as ErrNoRows.)
GetRandom_noError(d) ==
    IF d.words = {} THEN {[err |-> NoError, word |-> NoWord]}
    ELSE {[err |-> NoError, word |-> scanWord(r)] : r \in d.words}

\* GetRandom: ORDER BY RANDOM() LIMIT 1.  What it may return: any one of
\* the rows; no row is ErrNoRows.
GetRandom(d) ==
    IF d.words = {} THEN {[err |-> ErrNoRows, word |-> NoWord]}
    ELSE {[err |-> NoError, word |-> scanWord(r)] : r \in d.words}

\* The context of a call: live, or canceled by its caller.  A statement
\* given a canceled context is not run and fails with the context's error.
Live == "live"
Canceled == "canceled"
ErrScanCanceled == "failed to scan word: context canceled"
ErrInsertCanceled == "failed to insert word: context canceled"

GetByWordContext(ctx, d, text) ==
    IF ctx = Canceled THEN [err |-> ErrScanCanceled, word |-> NoWord]
    ELSE GetByWord(d, text)

CreateContext(ctx, d, word) ==
    IF ctx = Canceled THEN [db |-> d, err |-> ErrInsertCanceled, word |-> NoWord]
    ELSE Create(d, word)

-----------------------------------------------------------------------------
(* encoding/csv as the service uses it: a Writer and a Reader with their   *)
(* default settings (comma separator, no lazy quotes, no trimming, the     *)
(* field count fixed by the first record).  The model's texts hold no      *)
(* carriage return.                                                        *)

\* The position of the first occurrence of c in s, or 0.
IndexOf(s, c) ==
    IF \E i \in 1..Len(s) : s[i] = c
    THEN CHOOSE i \in 1..Len(s) : s[i] = c /\ \A j \in 1..(i - 1) : s[j] # c
    ELSE 0

\* unicode.IsSpace, on the characters of the model.
IsSpace(c) == c \in {" ", "\t", "\n", "\r"}

\* strings.TrimSpace.
RECURSIVE TrimLeft(_)
TrimLeft(s) == IF s # <<>> /\ IsSpace(Head(s)) THEN TrimLeft(Tail(s)) ELSE s

RECURSIVE TrimRight(_)
TrimRight(s) ==
    IF s # <<>> /\ IsSpace(s[Len(s)]) THEN TrimRight(SubSeq(s, 1, Len(s) - 1)) ELSE s

TrimSpace(s) == TrimRight(TrimLeft(s))

\* strings.ToLower.
ToLower(s) == [i \in 1..Len(s) |-> LowerOf(s[i])]

\* strings.Split(s, ","): the pieces between the separators, empty ones kept.
RECURSIVE Split(_, _)
Split(s, sep) ==
    IF IndexOf(s, sep) = 0 THEN <<s>>
    ELSE <<SubSeq(s, 1, IndexOf(s, sep) - 1)>>
         \o Split(SubSeq(s, IndexOf(s, sep) + 1, Len(s)), sep)

\* Writer.fieldNeedsQuotes: the field \. , a field with a separator, a quote,
\* a carriage return or a line break, or one that starts with a space.
fieldNeedsQuotes(field) ==
    /\ field # <<>>
    /\ \/ field = <<"\\", ".">>
       \/ \E i \in 1..Len(field) : field[i] \in {",", "\"", "\r", "\n"}
       \/ IsSpace(field[1])

\* Writer.Write, one field: as it is, or quoted with its quotes doubled.
WriteField(field) ==
    IF ~fieldNeedsQuotes(field) THEN field
    ELSE <<"\"">>
         \o Concat([i \in 1..Len(field) |->
                       IF field[i] = "\"" THEN <<"\"", "\"">> ELSE <<field[i]>>])
         \o <<"\"">>

\* Writer.Write: the fields separated by commas, then a line break.
WriteRecord(record) ==
    Join([i \in 1..Len(record) |-> WriteField(record[i])], <<",">>) \o <<"\n">>

\* Errors of the Reader.
EOF == "EOF"
ErrBareQuote == "bare \" in non-quoted-field"
ErrQuote == "extraneous or missing \" in quoted-field"
ErrFieldCount == "wrong number of fields"
ErrRead == "read failed"

\* A csv.Reader over a stream: the input not yet read, whether the stream
\* ends in a read failure instead of the end of input, and FieldsPerRecord.
NewReader(stream) ==
    [input |-> stream.data, broken |-> stream.broken, FieldsPerRecord |-> 0]

\* The error the stream gives once its data is consumed.
EndOfStream(broken) == IF broken THEN ErrRead ELSE EOF

\* Reader.readLine: the next line with its line break; the last line may
\* lack one, and comes without error only if the stream then ends.
readLine(input, broken) ==
    IF input = <<>>
    THEN [line |-> <<>>, rest |-> <<>>, err |-> EndOfStream(broken)]
    ELSE IF IndexOf(input, "\n") > 0
    THEN [line |-> SubSeq(input, 1, IndexOf(input, "\n")),
          rest |-> SubSeq(input, IndexOf(input, "\n") + 1, Len(input)),
          err |-> NoError]
    ELSE [line |-> input, rest |-> <<>>,
          err |-> IF broken THEN ErrRead ELSE NoError]

\* lengthNL: 1 if the line ends in a line break, else 0.
lengthNL(line) == IF line # <<>> /\ line[Len(line)] = "\n" THEN 1 ELSE 0

\* Reader.readRecord, the first loop: the next line that is not empty.
RECURSIVE SkipEmptyLines(_, _)
SkipIfEmpty(l, broken) ==
    IF l.err = NoError /\ Len(l.line) = lengthNL(l.line)
    THEN SkipEmptyLines(l.rest, broken)
    ELSE l

SkipEmptyLines(input, broken) == SkipIfEmpty(readLine(input, broken), broken)

\* Reader.readRecord, the parseField loop.  st holds the rest of the current
\* line, the input after it, the pending read error, the fields completed,
\* the quoted field being collected and the parse error.
RECURSIVE parseField(_, _)
RECURSIVE parseQuoted(_, _)
parseField(st, broken) ==
    IF st.line = <<>> \/ Head(st.line) # "\""
    THEN \* Non-quoted field: up to the next comma or the end of the line.
         LET i     == IndexOf(st.line, ",")
             field == IF i > 0 THEN SubSeq(st.line, 1, i - 1)
                      ELSE SubSeq(st.line, 1, Len(st.line) - lengthNL(st.line))
         IN  IF IndexOf(field, "\"") > 0
             THEN [st EXCEPT !.err = ErrBareQuote]
             ELSE IF i > 0
             THEN parseField([st EXCEPT !.fields = Append(@, field),
                                        !.line = SubSeq(st.line, i + 1, Len(st.line))],
                             broken)
             ELSE [st EXCEPT !.fields = Append(@, field)]
    ELSE parseQuoted([st EXCEPT !.line = Tail(@), !.cur = <<>>], broken)

parseQuoted(st, broken) ==
    LET i == IndexOf(st.line, "\"")
    IN  IF i > 0
        THEN \* Hit the next quote.
             LET cur  == st.cur \o SubSeq(st.line, 1, i - 1)
                 line == SubSeq(st.line, i + 1, Len(st.line))
             IN  IF line # <<>> /\ Head(line) = "\""
                 THEN parseQuoted([st EXCEPT !.cur = Append(cur, "\""),
                                             !.line = Tail(line)], broken)
                 ELSE IF line # <<>> /\ Head(line) = ","
                 THEN parseField([st EXCEPT !.fields = Append(@, cur), !.cur = <<>>,
                                            !.line = Tail(line)], broken)
                 ELSE IF lengthNL(line) = Len(line)
                 THEN [st EXCEPT !.fields = Append(@, cur), !.cur = <<>>, !.line = line]
                 ELSE [st EXCEPT !.err = ErrQuote, !.cur = cur, !.line = line]
        ELSE IF Len(st.line) > 0
        THEN \* Hit the end of the line: the field goes on in the next line.
             IF st.errRead # NoError
             THEN [st EXCEPT !.cur = @ \o st.line]
             ELSE LET l == readLine(st.rest, broken)
                  IN  parseQuoted([st EXCEPT !.cur = @ \o st.line,
                                             !.line = l.line, !.rest = l.rest,
                                             !.errRead = IF l.err = EOF THEN NoError
                                                         ELSE l.err], broken)
        ELSE \* Abrupt end of the input.
             IF st.errRead = NoError
             THEN [st EXCEPT !.err = ErrQuote]
             ELSE [st EXCEPT !.fields = Append(@, st.cur), !.cur = <<>>]

\* Reader.Read: the next record and the reader after it.  A record whose
\* field count differs from the first record's comes with ErrFieldCount.
ReadRecord(rd, st) ==
    LET err == IF st.err # NoError THEN st.err ELSE st.errRead
        n   == Len(st.fields)
    IN  [reader |-> [rd EXCEPT !.input = st.rest,
                               !.FieldsPerRecord = IF @ = 0 THEN n ELSE @],
         record |-> st.fields,
         err |-> IF rd.FieldsPerRecord > 0 /\ n # rd.FieldsPerRecord
                    /\ err = NoError
                 THEN ErrFieldCount ELSE err]

ReadFrom(rd, l) ==
    IF l.err = EOF
    THEN [reader |-> [rd EXCEPT !.input = <<>>], record |-> <<>>, err |-> EOF]
    ELSE ReadRecord(rd, parseField([line |-> l.line, rest |-> l.rest,
                                    errRead |-> l.err, fields |-> <<>>,
                                    cur |-> <<>>, err |-> NoError], rd.broken))

Read(rd) == ReadFrom(rd, SkipEmptyLines(rd.input, rd.broken))

-----------------------------------------------------------------------------
(* WordService.  A call is a frame: the operation, its arguments, its      *)
(* locals, the place it has reached (pc) and, once pc is "done", what it   *)
(* returns.  A step of a call runs the code up to and including its next   *)
(* storage call (or, in ImportCSV, its next read of the stream); steps of  *)
(* concurrent calls interleave, and the engine runs each statement         *)
(* atomically.  calls lists the storage calls the call has made.           *)

\* Errors of the service, by their format string.
ErrWordRequired == "word is required"
ErrSourceRequired == "source is required"
ErrDateRequired == "date_learned is required"
ErrAlreadyExists == "word '%s' already exists"
ErrReadHeader == "failed to read CSV header: %w"
ErrMissingColumn == "missing required column: %s"
ErrMissingField == "missing required field"

\* The errors create returns for input it refuses before any storage call.
ValidationErrors == {ErrWordRequired, ErrSourceRequired, ErrDateRequired}

NoCreateRequest ==
    [Word |-> <<>>, Source |-> <<>>, DateLearned |-> <<>>,
     PartOfSpeech |-> NilString, ExampleSentence |-> NilString, Tags |-> NilSlice]

NoUpdateRequest ==
    [Word |-> NilString, Source |-> NilString, DateLearned |-> NilString,
     PartOfSpeech |-> NilString, ExampleSentence |-> NilString, Tags |-> NilSlice]

NoStream == [data |-> <<>>, broken |-> FALSE]

\* ImportResult{}.
NoImportResult == [Imported |-> 0, Skipped |-> 0, Errors |-> <<>>]

\* The header names ImportCSV looks for.
n_word == <<"w", "o", "r", "d">>
n_source == <<"s", "o", "u", "r", "c", "e">>
n_date_learned == <<"d", "a", "t", "e", "_", "l", "e", "a", "r", "n", "e", "d">>
n_part_of_speech ==
    <<"p", "a", "r", "t", "_", "o", "f", "_", "s", "p", "e", "e", "c", "h">>
n_example_sentence ==
    <<"e", "x", "a", "m", "p", "l", "e", "_", "s", "e", "n", "t", "e", "n", "c", "e">>
n_tags == <<"t", "a", "g", "s">>

NoColumns ==
    [word |-> 0, source |-> 0, date_learned |-> 0, part_of_speech |-> 0,
     example_sentence |-> 0, tags |-> 0]

\* A call that has not begun.
Idle ==
    [op |-> "none", pc |-> "idle", req |-> NoCreateRequest, id |-> 0,
     upd |-> NoUpdateRequest, word |-> NoWord, reader |-> NewReader(NoStream),
     colIndex |-> NoColumns, lineNum |-> 0, result |-> NoImportResult,
     hasResult |-> FALSE, err |-> NoError, out |-> NoWord, sink |-> <<>>,
     calls |-> <<>>, ctx |-> Live, stream |-> NoStream]

\* A call returns: its error, and nothing more to run.
Return(frame, err) == [frame EXCEPT !.pc = "done", !.err = err]

\* WordService.Create, up to the duplicate check: the three required
\* fields are validated before anything is read from the store.
\* (Variant: the date learned is not validated.)
CreateBegin_noDateCheck(req) ==
    LET frame == [Idle EXCEPT !.op = "Create", !.req = req]
    IN  IF req.Word = <<>> THEN Return(frame, ErrWordRequired)
        ELSE IF req.Source = <<>> THEN Return(frame, ErrSourceRequired)
        ELSE [frame EXCEPT !.pc = "precheck"]

CreateBegin(req) ==
    LET frame == [Idle EXCEPT !.op = "Create", !.req = req]
    IN  IF req.Word = <<>> THEN Return(frame, ErrWordRequired)
        ELSE IF req.Source = <<>> THEN Return(frame, ErrSourceRequired)
        ELSE IF req.DateLearned = <<>> THEN Return(frame, ErrDateRequired)
        ELSE [frame EXCEPT !.pc = "precheck"]

\* WordService.Create, the duplicate check: GetByWord, then the word to
\* insert is built, a nil tag list becoming the empty list.
\* (Variant: the duplicate is left to the insert.)
CreatePrecheck_unchecked(frame, d) ==
    [frame EXCEPT !.calls = Append(@, "GetByWord"), !.pc = "insert",
                  !.word = NewWord(frame.req.Word, frame.req.Source,
                                   frame.req.DateLearned, frame.req.PartOfSpeech,
                                   frame.req.ExampleSentence,
                                   IF frame.req.Tags.IsNil THEN Slice(<<>>)
                                   ELSE frame.req.Tags)]

CreatePrecheck(frame, d) ==
    LET existing == GetByWord(d, frame.req.Word)
        f == [frame EXCEPT !.calls = Append(@, "GetByWord")]
    IN  IF existing.err = NoError
        THEN Return(f, ErrAlreadyExists)
        ELSE [f EXCEPT !.pc = "insert",
                       !.word = NewWord(frame.req.Word, frame.req.Source,
                                        frame.req.DateLearned,
                                        frame.req.PartOfSpeech,
                                        frame.req.ExampleSentence,
                                        IF frame.req.Tags.IsNil THEN Slice(<<>>)
                                        ELSE frame.req.Tags)]

\* WordService.Create, the insert: whatever repo.Create returns is returned.
CreateInsert(frame, d) ==
    LET r == Create(d, frame.word)
    IN  [frame |-> [Return(frame, r.err) EXCEPT !.out = r.word,
                                                !.calls = Append(@, "Create")],
         db |-> r.db]

\* (Variant: a field set to the empty string counts as absent.)
Merge_skipEmpty(word, upd) ==
    [word EXCEPT
        !.Word = IF upd.Word.Valid THEN upd.Word.String ELSE @,
        !.Source = IF upd.Source.Valid /\ upd.Source.String # <<>>
                   THEN upd.Source.String ELSE @,
        !.DateLearned = IF upd.DateLearned.Valid THEN upd.DateLearned.String ELSE @,
        !.PartOfSpeech = IF upd.PartOfSpeech.Valid THEN upd.PartOfSpeech ELSE @,
        !.ExampleSentence =
            IF upd.ExampleSentence.Valid /\ upd.ExampleSentence.String # <<>>
            THEN upd.ExampleSentence ELSE @,
        !.Tags = IF ~upd.Tags.IsNil THEN upd.Tags ELSE @]

\* WordService.Update, the merge: each field the request holds replaces the
\* loaded one.
Merge(word, upd) ==
    [word EXCEPT
        !.Word = IF upd.Word.Valid THEN upd.Word.String ELSE @,
        !.Source = IF upd.Source.Valid THEN upd.Source.String ELSE @,
        !.DateLearned = IF upd.DateLearned.Valid THEN upd.DateLearned.String ELSE @,
        !.PartOfSpeech = IF upd.PartOfSpeech.Valid THEN upd.PartOfSpeech ELSE @,
        !.ExampleSentence =
            IF upd.ExampleSentence.Valid THEN upd.ExampleSentence ELSE @,
        !.Tags = IF ~upd.Tags.IsNil THEN upd.Tags ELSE @]

UpdateBegin(id, upd) == [Idle EXCEPT !.op = "Update", !.pc = "load", !.id = id, !.upd = upd]

\* WordService.Update, the load: GetByID; an error is returned as it is.  A
\* request that changes the word text goes on to the duplicate check.
UpdateLoad(frame, d) ==
    LET loaded == GetByID(d, frame.id)
        f == [frame EXCEPT !.calls = Append(@, "GetByID")]
    IN  IF loaded.err # NoError THEN Return(f, loaded.err)
        ELSE IF frame.upd.Word.Valid /\ frame.upd.Word.String # loaded.word.Word
        THEN [f EXCEPT !.pc = "precheck", !.word = loaded.word]
        ELSE [f EXCEPT !.pc = "write", !.word = Merge(loaded.word, frame.upd)]

\* WordService.Update, the duplicate check of the new word text.
UpdatePrecheck(frame, d) ==
    LET existing == GetByWord(d, frame.upd.Word.String)
        f == [frame EXCEPT !.calls = Append(@, "GetByWord")]
    IN  IF existing.err = NoError
        THEN Return(f, ErrAlreadyExists)
        ELSE [f EXCEPT !.pc = "write", !.word = Merge(frame.word, frame.upd)]

\* WordService.Update, the write: whatever repo.Update returns is returned.
UpdateWrite(frame, d) ==
    LET r == Update(d, frame.word)
    IN  [frame |-> [Return(frame, r.err) EXCEPT !.out = r.word,
                                                !.calls = Append(@, "Update")],
         db |-> r.db]

DeleteBegin(id) == [Idle EXCEPT !.op = "Delete", !.pc = "delete", !.id = id]

\* WordService.Delete.
DeleteStep(frame, d) ==
    LET r == Delete(d, frame.id)
    IN  [frame |-> [Return(frame, r.err) EXCEPT !.calls = Append(@, "Delete")],
         db |-> r.db]

\* WordService.GetRandom: whatever repo.GetRandom returns is returned.
GetRandomBegin == [Idle EXCEPT !.op = "GetRandom", !.pc = "random"]

GetRandomStep(frame, picked) ==
    [Return(frame, picked.err) EXCEPT !.out = picked.word,
                                      !.calls = Append(@, "GetRandom")]

\* ImportCSV, colIndex: the position of a column name in the header, names
\* trimmed and lower-cased, the last of equal names winning; 0 if absent.
ColumnIndex(header, name) ==
    LET at == {i \in 1..Len(header) : ToLower(TrimSpace(header[i])) = name}
    IN  IF at = {} THEN 0 ELSE CHOOSE i \in at : \A j \in at : j <= i

\* ImportCSV, up to the row loop: the header is read and the three required
\* columns are looked up; a failure returns an error and no result.
ImportColumns(record) ==
    [word |-> ColumnIndex(record, n_word),
     source |-> ColumnIndex(record, n_source),
     date_learned |-> ColumnIndex(record, n_date_learned),
     part_of_speech |-> ColumnIndex(record, n_part_of_speech),
     example_sentence |-> ColumnIndex(record, n_example_sentence),
     tags |-> ColumnIndex(record, n_tags)]

\* (Variant: the date_learned column is not required.)
ImportHeader_noDateColumn(frame, header, cols) ==
    IF header.err # NoError THEN Return(frame, ErrReadHeader)
    ELSE IF cols.word = 0 \/ cols.source = 0
    THEN Return(frame, ErrMissingColumn)
    ELSE [frame EXCEPT !.pc = "row", !.colIndex = cols, !.lineNum = 1,
                       !.result = NoImportResult, !.hasResult = TRUE]

ImportHeader(frame, header, cols) ==
    IF header.err # NoError THEN Return(frame, ErrReadHeader)
    ELSE IF cols.word = 0 \/ cols.source = 0 \/ cols.date_learned = 0
    THEN Return(frame, ErrMissingColumn)
    ELSE [frame EXCEPT !.pc = "row", !.colIndex = cols, !.lineNum = 1,
                       !.result = NoImportResult, !.hasResult = TRUE]

ImportFrom(header) ==
    ImportHeader([Idle EXCEPT !.op = "ImportCSV", !.reader = header.reader],
                 header, ImportColumns(header.record))

ImportBegin(stream) ==
    [ImportFrom(Read(NewReader(stream))) EXCEPT !.stream = stream]

\* (Variant: a skipped row is counted and leaves no entry.)
Skip_silent(frame, msg) ==
    [frame EXCEPT !.pc = "row", !.result = [@ EXCEPT !.Skipped = @ + 1]]

\* ImportCSV: a row is skipped with a line-numbered error.
Skip(frame, msg) ==
    [frame EXCEPT !.pc = "row",
                  !.result = [@ EXCEPT !.Skipped = @ + 1,
                                       !.Errors = Append(@, [line |-> frame.lineNum,
                                                             msg |-> msg])]]

\* ImportCSV, an optional column of a record: set only if the column exists
\* and the field is not empty after trimming.
OptionalField(record, idx) ==
    IF idx > 0 /\ idx <= Len(record) /\ TrimSpace(record[idx]) # <<>>
    THEN StringPtr(TrimSpace(record[idx]))
    ELSE NilString

\* ImportCSV, the tags column of a record: split on commas, each piece
\* trimmed; the empty list if the column is absent or empty.
TagsField(record, idx) ==
    IF idx > 0 /\ idx <= Len(record) /\ TrimSpace(record[idx]) # <<>>
    THEN LET pieces == Split(TrimSpace(record[idx]), ",")
         IN  Slice([i \in 1..Len(pieces) |-> TrimSpace(pieces[i])])
    ELSE Slice(<<>>)

\* ImportCSV, one turn of the row loop up to the duplicate check: the next
\* record is read; the end of the input ends the call with its result, a
\* record that does not parse or lacks a required field is skipped, any
\* other becomes the word to check and insert.
RowWord(record, cols) ==
    NewWord(TrimSpace(record[cols.word]),
            TrimSpace(record[cols.source]),
            TrimSpace(record[cols.date_learned]),
            OptionalField(record, cols.part_of_speech),
            OptionalField(record, cols.example_sentence),
            TagsField(record, cols.tags))

ImportWord(frame, word) ==
    IF word.Word = <<>> \/ word.Source = <<>> \/ word.DateLearned = <<>>
    THEN Skip(frame, ErrMissingField)
    ELSE [frame EXCEPT !.pc = "precheck", !.word = word]

ImportRecord(frame, rec) ==
    IF rec.err = EOF THEN Return(frame, NoError)
    ELSE IF rec.err # NoError THEN Skip(frame, rec.err)
    ELSE ImportWord(frame, RowWord(rec.record, frame.colIndex))

\* (Variant: the line counter stays where it is.)
ImportRead_sameLine(frame, rec) ==
    ImportRecord([frame EXCEPT !.reader = rec.reader], rec)

ImportRead(frame, rec) ==
    ImportRecord([frame EXCEPT !.lineNum = @ + 1, !.reader = rec.reader], rec)

ImportRow(frame) == ImportRead(frame, Read(frame.reader))

\* ImportCSV, the duplicate check of a row.
ImportPrecheck(frame, d) ==
    LET existing == GetByWordContext(frame.ctx, d, frame.word.Word)
        f == [frame EXCEPT !.calls = Append(@, "GetByWord")]
    IN  IF existing.err = NoError
        THEN Skip(f, ErrAlreadyExists)
        ELSE [f EXCEPT !.pc = "insert"]

\* ImportCSV, the insert of a row: an error skips the row, success counts it.
\* (Variant: a failed insert ends the import with its error.)
ImportCreated_abort(frame, r) ==
    [frame |-> IF r.err # NoError THEN Return(frame, r.err)
               ELSE [frame EXCEPT !.pc = "row", !.result.Imported = @ + 1],
     db |-> r.db]

ImportCreated(frame, r) ==
    [frame |-> IF r.err # NoError THEN Skip(frame, r.err)
               ELSE [frame EXCEPT !.pc = "row", !.result.Imported = @ + 1],
     db |-> r.db]

ImportInsert(frame, d) ==
    ImportCreated([frame EXCEPT !.calls = Append(@, "Create")],
                  CreateContext(frame.ctx, d, frame.word))

\* ExportCSV, a word as a record: absent optional fields as empty strings,
\* the tags joined by commas into one field.
ExportRecord(word) ==
    <<word.Word, word.Source, word.DateLearned,
      IF word.PartOfSpeech.Valid THEN word.PartOfSpeech.String ELSE <<>>,
      IF word.ExampleSentence.Valid THEN word.ExampleSentence.String ELSE <<>>,
      Join(word.Tags.Elems, <<",">>)>>

ExportHeader ==
    <<n_word, n_source, n_date_learned, n_part_of_speech, n_example_sentence, n_tags>>

ExportBegin == [Idle EXCEPT !.op = "ExportCSV", !.pc = "export"]

\* ExportCSV: the error of the list is returned wrapped; otherwise every
\* word in the list order is written after the fixed header.
ExportListed(frame, listed) ==
    IF listed.err # NoError
    THEN Return(frame, "failed to fetch words: " \o listed.err)
    ELSE [Return(frame, NoError) EXCEPT
             !.sink = WriteRecord(ExportHeader)
                      \o Concat([i \in 1..Len(listed.words) |->
                                    WriteRecord(ExportRecord(listed.words[i]))])]

ExportStep(frame, d) ==
    ExportListed([frame EXCEPT !.calls = Append(@, "List")], List(d, EmptyFilter))

\* The next step of a call, by its operation and its place.
Step(frame, d) ==
    CASE frame.op = "Create" /\ frame.pc = "precheck" ->
             [frame |-> CreatePrecheck(frame, d), db |-> d]
      [] frame.op = "Create" /\ frame.pc = "insert" -> CreateInsert(frame, d)
      [] frame.op = "Update" /\ frame.pc = "load" ->
             [frame |-> UpdateLoad(frame, d), db |-> d]
      [] frame.op = "Update" /\ frame.pc = "precheck" ->
             [frame |-> UpdatePrecheck(frame, d), db |-> d]
      [] frame.op = "Update" /\ frame.pc = "write" -> UpdateWrite(frame, d)
      [] frame.op = "Delete" /\ frame.pc = "delete" -> DeleteStep(frame, d)
      [] frame.op = "ImportCSV" /\ frame.pc = "row" ->
             [frame |-> ImportRow(frame), db |-> d]
      [] frame.op = "ImportCSV" /\ frame.pc = "precheck" ->
             [frame |-> ImportPrecheck(frame, d), db |-> d]
      [] frame.op = "ImportCSV" /\ frame.pc = "insert" -> ImportInsert(frame, d)
      [] frame.op = "ExportCSV" /\ frame.pc = "export" ->
             [frame |-> ExportStep(frame, d), db |-> d]

\* A call run from a place to its return with no other call in between.
RECURSIVE RunOn(_)
RunOn(r) == IF r.frame.pc = "done" THEN r ELSE RunOn(Step(r.frame, r.db))

Run(frame, d) == RunOn([frame |-> frame, db |-> d])

-----------------------------------------------------------------------------
(* DictionaryService: the lookup of a word at the dictionary source.       *)

ErrWordNotFound == "word not found in dictionary"
ErrCreateRequest == "failed to create request: %w"
ErrFetch == "failed to fetch definition: %w"
ErrStatus == "dictionary API returned status %d"
ErrDecode == "failed to decode response: %w"

StatusOK == 200
StatusNotFound == 404

\* What client.Do gives: an error (no connection, a timeout), or a response
\* with a status and a body; the body either decodes into entries or not.
NoBody == [valid |-> FALSE, entries |-> <<>>]
Entries(entries) == [valid |-> TRUE, entries |-> entries]
Failed(err) == [err |-> err, status |-> 0, body |-> NoBody]
Response(status, body) == [err |-> NoError, status |-> status, body |-> body]

\* DictionaryResponse{}.
NoResponse ==
    [Word |-> <<>>, Phonetic |-> <<>>, AudioURL |-> <<>>, Meanings |-> <<>>,
     SourceURLs |-> <<>>]

\* transformResponse, the loop over the phonetics of the first entry: it
\* ends at the first variant with an audio URL; a variant before that one
\* gives its text if the response has no phonetic yet.
RECURSIVE ScanPhonetics(_, _)
ScanPhonetics(phonetics, response) ==
    IF phonetics = <<>> THEN response
    ELSE IF Head(phonetics).Audio # <<>>
    THEN [response EXCEPT !.AudioURL = Head(phonetics).Audio]
    ELSE ScanPhonetics(Tail(phonetics),
                       IF response.Phonetic = <<>> /\ Head(phonetics).Text # <<>>
                       THEN [response EXCEPT !.Phonetic = Head(phonetics).Text]
                       ELSE response)

\* (Variant: every non-empty source URL is appended, seen before or not.)
RECURSIVE CollectSourceURLs_all(_, _)
CollectSourceURLs_all(entries, urls) ==
    IF entries = <<>> THEN urls
    ELSE CollectSourceURLs_all(Tail(entries),
                               IF Head(entries).SourceURL # <<>>
                               THEN Append(urls, Head(entries).SourceURL)
                               ELSE urls)

\* transformResponse, the loop over all entries: a source URL that is not
\* empty and was not seen is appended.
RECURSIVE CollectSourceURLs(_, _)
CollectSourceURLs(entries, urls) ==
    IF entries = <<>> THEN urls
    ELSE CollectSourceURLs(Tail(entries),
                           IF /\ Head(entries).SourceURL # <<>>
                              /\ Head(entries).SourceURL \notin Range(urls)
                           THEN Append(urls, Head(entries).SourceURL)
                           ELSE urls)

\* transformResponse: word, phonetic and meanings of the first entry, the
\* audio URL and the phonetic of its variants, the source URLs of all.
transformResponse(entries) ==
    [ScanPhonetics(entries[1].Phonetics,
                   [NoResponse EXCEPT !.Word = entries[1].Word,
                                      !.Phonetic = entries[1].Phonetic,
                                      !.Meanings = entries[1].Meanings])
        EXCEPT !.SourceURLs = CollectSourceURLs(entries, <<>>)]

\* The part of a text before the first occurrence of a character, and the
\* part after it (strings.Cut).
CutBefore(s, c) == IF IndexOf(s, c) = 0 THEN s ELSE SubSeq(s, 1, IndexOf(s, c) - 1)
CutAfter(s, c) == IF IndexOf(s, c) = 0 THEN <<>> ELSE SubSeq(s, IndexOf(s, c) + 1, Len(s))

\* A hexadecimal digit.
IsHex(c) ==
    c \in {"0", "1", "2", "3", "4", "5", "6", "7", "8", "9",
           "a", "b", "c", "d", "e", "f", "A", "B", "C", "D", "E", "F"}

\* url.unescape: a percent sign that two hexadecimal digits do not follow.
BadEscape(s) ==
    \E i \in 1..Len(s) :
        /\ s[i] = "%"
        /\ ~(i + 2 <= Len(s) /\ IsHex(s[i + 1]) /\ IsHex(s[i + 2]))

\* Whether http.NewRequestWithContext refuses the URL base + "/" + word,
\* the word not escaped (url.Parse): a control character before the
\* fragment, or an invalid escape in the path or in the fragment; the
\* query is taken as it is.
InvalidURL(word) ==
    \/ \E i \in 1..Len(CutBefore(word, "#")) :
           CutBefore(word, "#")[i] \in {"\n", "\t", "\r", "\f"}
    \/ BadEscape(CutBefore(CutBefore(word, "#"), "?"))
    \/ BadEscape(CutAfter(word, "#"))

\* The outcome of a lookup: its error, its response, the requests issued.
Outcome(err, response, requests) ==
    [err |-> err, resp |-> response, requests |-> requests]

\* (Variant: the not-found status is a status like any other.)
Lookup_anyStatus(word, reply) ==
    IF InvalidURL(word) THEN Outcome(ErrCreateRequest, NoResponse, <<>>)
    ELSE IF reply.err # NoError THEN Outcome(ErrFetch, NoResponse, <<word>>)
    ELSE IF reply.status # StatusOK THEN Outcome(ErrStatus, NoResponse, <<word>>)
    ELSE IF ~reply.body.valid THEN Outcome(ErrDecode, NoResponse, <<word>>)
    ELSE IF Len(reply.body.entries) = 0
    THEN Outcome(ErrWordNotFound, NoResponse, <<word>>)
    ELSE Outcome(NoError, transformResponse(reply.body.entries), <<word>>)

\* DictionaryService.Lookup.
Lookup(word, reply) ==
    IF InvalidURL(word) THEN Outcome(ErrCreateRequest, NoResponse, <<>>)
    ELSE IF reply.err # NoError THEN Outcome(ErrFetch, NoResponse, <<word>>)
    ELSE IF reply.status = StatusNotFound
    THEN Outcome(ErrWordNotFound, NoResponse, <<word>>)
    ELSE IF reply.status # StatusOK THEN Outcome(ErrStatus, NoResponse, <<word>>)
    ELSE IF ~reply.body.valid THEN Outcome(ErrDecode, NoResponse, <<word>>)
    ELSE IF Len(reply.body.entries) = 0
    THEN Outcome(ErrWordNotFound, NoResponse, <<word>>)
    ELSE Outcome(NoError, transformResponse(reply.body.entries), <<word>>)

\* A call for a definition: the id, the word loaded, the reply of the
\* source, the outcome of the service call and the answer of the handler.
NoAnswer == [status |-> 0, message |-> ""]

NoLookup ==
    [op |-> "none", pc |-> "idle", word |-> <<>>, idText |-> <<>>, id |-> 0,
     before |-> EmptyDB, reply |-> Failed(NoError),
     err |-> NoError, resp |-> NoResponse, requests |-> <<>>,
     answer |-> NoAnswer]

\* WordService.GetDefinition up to the call of the dictionary: the word is
\* loaded by id, an error is returned as it is and ends the call.
GetDefinition(frame, d) ==
    IF GetByID(d, frame.id).err # NoError
    THEN [frame EXCEPT !.before = d, !.pc = "done",
                       !.err = GetByID(d, frame.id).err]
    ELSE [frame EXCEPT !.before = d, !.pc = "lookup",
                       !.word = GetByID(d, frame.id).word.Word]

\* WordService.GetDefinition, the call of the dictionary for the text of
\* the word loaded: its outcome is the outcome of the call.
GetDefinitionLookup(frame, reply, r) ==
    [frame EXCEPT !.pc = "done", !.reply = reply, !.err = r.err,
                  !.resp = r.resp, !.requests = r.requests]

\* strconv.ParseInt(s, 10, 64) and the strconv.ParseUint it calls on the
\* text after the sign.
ErrSyntax == "invalid syntax"
ErrRange == "value out of range"

DecimalDigits == <<"0", "1", "2", "3", "4", "5", "6", "7", "8", "9">>

DigitOf(c) == IndexOf(DecimalDigits, c) - 1

RECURSIVE TrimZeros(_)
TrimZeros(s) == IF s # <<>> /\ Head(s) = "0" THEN TrimZeros(Tail(s)) ELSE s

\* Whether a text of digits is above another of the same length.
RECURSIVE DigitsAbove(_, _)
DigitsAbove(s, t) ==
    IF s = <<>> THEN FALSE
    ELSE IF Head(s) # Head(t) THEN DigitOf(Head(s)) > DigitOf(Head(t))
    ELSE DigitsAbove(Tail(s), Tail(t))

\* Whether the number a text of digits writes is above the one a text of
\* digits without leading zeros writes.
NumberAbove(digits, limit) ==
    \/ Len(TrimZeros(digits)) > Len(limit)
    \/ /\ Len(TrimZeros(digits)) = Len(limit)
       /\ DigitsAbove(TrimZeros(digits), limit)

\* 1<<64 - 1, 1<<63 - 1 and 1<<63.
MaxUint64Digits ==
    <<"1", "8", "4", "4", "6", "7", "4", "4", "0", "7",
      "3", "7", "0", "9", "5", "5", "1", "6", "1", "5">>
MaxInt64Digits ==
    <<"9", "2", "2", "3", "3", "7", "2", "0", "3", "6",
      "8", "5", "4", "7", "7", "5", "8", "0", "7">>
MinInt64Digits ==
    <<"9", "2", "2", "3", "3", "7", "2", "0", "3", "6",
      "8", "5", "4", "7", "7", "5", "8", "0", "8">>

RECURSIVE ValueOf(_, _)
ValueOf(s, n) == IF s = <<>> THEN n ELSE ValueOf(Tail(s), 10 * n + DigitOf(Head(s)))

\* ParseUint, the loop over the characters from the i-th on: a character
\* that is no digit is a syntax error, a digit that takes the number above
\* 64 bits is a range error, whichever comes first.
RECURSIVE ScanUint(_, _)
ScanUint(s, i) ==
    IF i > Len(s) THEN NoError
    ELSE IF IndexOf(DecimalDigits, s[i]) = 0 THEN ErrSyntax
    ELSE IF NumberAbove(SubSeq(s, 1, i), MaxUint64Digits) THEN ErrRange
    ELSE ScanUint(s, i + 1)

ParseUint(s) == IF s = <<>> THEN ErrSyntax ELSE ScanUint(s, 1)

\* ParseInt after the sign: a syntax error of ParseUint is returned, then
\* the number is held against the 64 bits of its sign.  The value of a text
\* with more than six significant digits is kept as one number above every
\* id a store of the model assigns.
ParseDigits(digits, negative) ==
    IF ParseUint(digits) = ErrSyntax THEN [err |-> ErrSyntax, value |-> 0]
    ELSE IF \/ ParseUint(digits) = ErrRange
            \/ NumberAbove(digits, IF negative THEN MinInt64Digits
                                    ELSE MaxInt64Digits)
    THEN [err |-> ErrRange, value |-> 0]
    ELSE [err |-> NoError,
          value |-> (IF negative THEN -1 ELSE 1)
                    * (IF Len(TrimZeros(digits)) > 6 THEN 1000000
                       ELSE ValueOf(TrimZeros(digits), 0))]

ParseInt(s) ==
    IF s = <<>> THEN [err |-> ErrSyntax, value |-> 0]
    ELSE IF Head(s) \in {"+", "-"} THEN ParseDigits(Tail(s), Head(s) = "-")
    ELSE ParseDigits(s, FALSE)

StatusBadRequest == 400
StatusInternalServerError == 500

\* Handler.GetWordDefinition: what the caller of the API is answered, by
\* the error of the id in the URL and the error of GetDefinition.
GetWordDefinition(parseErr, err) ==
    IF parseErr # NoError
    THEN [status |-> StatusBadRequest, message |-> "invalid word ID"]
    ELSE IF err = NoError THEN [status |-> StatusOK, message |-> ""]
    ELSE IF err = ErrNoRows
    THEN [status |-> StatusNotFound, message |-> "word not found"]
    ELSE IF err = ErrWordNotFound
    THEN [status |-> StatusNotFound,
          message |-> "definition not found in dictionary"]
    ELSE [status |-> StatusInternalServerError,
          message |-> "failed to get definition"]

\* The answer of the handler to a call that has returned.
Answered(frame) ==
    IF frame.pc # "done" THEN frame
    ELSE [frame EXCEPT !.answer = GetWordDefinition(NoError, frame.err)]

-----------------------------------------------------------------------------
(* Sample words, stores and filters for the listing queries.               *)

\* Texts of the samples.
t_eph == <<"e", "p", "h">>
t_EPH == <<"E", "P", "H">>
t_e_h == <<"e", "_", "h">>
t_ubi == <<"u", "b", "i">>
t_hip == <<"h", "i", "p">>
t_tab == <<"t", "a", "b">>
t_Bk == <<"B", "k">>
t_Art == <<"A", "r", "t">>
t_lit == <<"l", "i", "t">>
t_LIT == <<"L", "I", "T">>
t_l_t == <<"l", "_", "t">>
t_literature == <<"l", "i", "t", "e", "r", "a", "t", "u", "r", "e">>
t_sLTt == <<"s", "<", "t">>
t_15 == <<"1", "5">>
t_20 == <<"2", "0">>
t_28 == <<"2", "8">>
t_2 == <<"2">>

\* The words the sample stores are made of: two pairs share a date, one tag
\* is a proper prefix of another, one differs from it by case only, one
\* holds a character the JSON encoder escapes.
SampleWords ==
    { NewWord(t_eph, t_Bk, t_15, NilString, NilString, Slice(<<t_lit>>)),
      NewWord(t_ubi, t_Art, t_20, NilString, NilString, Slice(<<t_literature>>)),
      NewWord(t_EPH, t_Bk, t_20, NilString, NilString, Slice(<<t_LIT, t_lit>>)),
      NewWord(t_tab, t_Art, t_28, NilString, NilString, Slice(<<t_sLTt>>)),
      NewWord(t_hip, t_Bk, t_15, StringPtr(<<"n">>), NilString, Slice(<<>>)) }

\* The stores reached by at most n successful Create calls of sample words.
RECURSIVE StoresUpTo(_)
StoresUpTo(n) ==
    IF n = 0 THEN {EmptyDB}
    ELSE LET prev == StoresUpTo(n - 1)
         IN  prev \cup {Create(d, w).db : d \in prev, w \in SampleWords}

SampleStores == StoresUpTo(MaxRows)

\* Filters that set predicates only, and filters that page.
PredicateFilters ==
    [Search : {<<>>, t_eph, t_EPH, t_e_h}, Source : {<<>>, t_Bk},
     Tag : {<<>>, t_lit, t_LIT, t_l_t, t_sLTt},
     FromDate : {<<>>, t_15, t_2}, ToDate : {<<>>, t_20, t_2},
     Limit : {0}, Offset : {0}]

PagedFilters ==
    [Search : {<<>>}, Source : {<<>>, t_Bk}, Tag : {<<>>},
     FromDate : {<<>>, t_20}, ToDate : {<<>>},
     Limit : 0..MaxPage, Offset : 0..MaxPage]

SampleFilters == PredicateFilters \cup PagedFilters

NoQuery ==
    [op |-> "none", filter |-> EmptyFilter, err |-> NoError, words |-> <<>>,
     count |-> 0]

-----------------------------------------------------------------------------
(* Specification SpecQuery: listing and counting over a store.             *)

\* The variables of the other specifications, at rest.
NoCall == [frame |-> Idle, before |-> EmptyDB]
NoPrev ==
    [op |-> "none", req |-> NoCreateRequest, id |-> 0, err |-> NoError,
     before |-> EmptyDB]
NoExport == [done |-> FALSE, text |-> <<>>, from |-> {}]
Callers == {"c1", "c2"}

InitQuery ==
    /\ db \in SampleStores
    /\ q = NoQuery
    /\ procs = [p \in Callers |-> Idle]
    /\ lastCall = NoCall /\ prevCall = NoPrev /\ exported = NoExport /\ lookup = NoLookup

\* A caller lists the words a filter selects.
QueryList(filter) ==
    /\ q.op = "none"
    /\ q' = [op |-> "List", filter |-> filter, err |-> List(db, filter).err,
             words |-> List(db, filter).words, count |-> 0]
    /\ UNCHANGED <<db, procs, lastCall, prevCall, exported, lookup>>

\* A caller counts the words a filter selects.
QueryCount(filter) ==
    /\ q.op = "none"
    /\ q' = [op |-> "Count", filter |-> filter, err |-> Count(db, filter).err,
             words |-> <<>>, count |-> Count(db, filter).count]
    /\ UNCHANGED <<db, procs, lastCall, prevCall, exported, lookup>>

\* The caller has taken the response; the next query may be issued.
QueryReturn ==
    /\ q.op # "none"
    /\ q' = NoQuery
    /\ UNCHANGED <<db, procs, lastCall, prevCall, exported, lookup>>

NextQuery ==
    \/ \E filter \in SampleFilters : QueryList(filter)
    \/ \E filter \in SampleFilters : QueryCount(filter)
    \/ QueryReturn

SpecQuery == InitQuery /\ [][NextQuery]_vars

-----------------------------------------------------------------------------
(* Specification SpecSeq: one caller, each service call run to its return  *)
(* before the next begins; a call takes one step for each storage call.    *)

t_x == <<"x">>

\* The create requests of the sequential caller: requests for one word text
\* that differ in their other fields, and requests with a required field
\* empty, each alone and all together.
SeqCreateRequests ==
    {[Word |-> f[1], Source |-> f[2], DateLearned |-> f[3],
      PartOfSpeech |-> NilString, ExampleSentence |-> NilString,
      Tags |-> IF f[2] = t_Art THEN Slice(<<t_x>>) ELSE NilSlice] :
        f \in ({t_eph, t_ubi} \X {t_Bk, t_Art} \X {t_15})
               \cup {<<<<>>, t_Bk, t_15>>, <<t_eph, <<>>, t_15>>,
                      <<t_eph, t_Art, <<>>>>, <<<<>>, <<>>, <<>>>>}}

InitSeq ==
    /\ db = EmptyDB
    /\ lastCall = NoCall /\ prevCall = NoPrev
    /\ q = NoQuery /\ procs = [p \in Callers |-> Idle] /\ exported = NoExport /\ lookup = NoLookup

\* What the next call remembers of the call before it: its operation, its
\* request or id, its error and the store it ran on.
Summary(call) ==
    [op |-> call.frame.op, req |-> call.frame.req, id |-> call.frame.id,
     err |-> call.frame.err, before |-> call.before]

\* The caller has no call in progress.
SeqIdle == lastCall.frame.pc \in {"idle", "done"}

\* A call of one storage call begins and returns.
SeqReturns(r) ==
    /\ SeqIdle
    /\ db' = r.db
    /\ lastCall' = [frame |-> r.frame, before |-> db]
    /\ prevCall' = Summary(lastCall)
    /\ UNCHANGED <<q, procs, exported, lookup>>

\* A call of several storage calls begins: what it does before the first.
SeqCalls(frame) ==
    /\ SeqIdle
    /\ lastCall' = [frame |-> frame, before |-> db]
    /\ prevCall' = Summary(lastCall)
    /\ UNCHANGED <<db, q, procs, exported, lookup>>

\* The call in progress makes its next storage call.
SeqSteps(r) ==
    /\ db' = r.db
    /\ lastCall' = [lastCall EXCEPT !.frame = r.frame]
    /\ UNCHANGED <<q, procs, prevCall, exported, lookup>>

SeqStep == ~SeqIdle /\ SeqSteps(Step(lastCall.frame, db))

\* The caller creates a word.
SeqCreate(req) == db.clock < MaxClock /\ SeqCalls(CreateBegin(req))

\* The caller deletes a word by id.
SeqDelete(id) == db.clock < MaxClock /\ SeqReturns(Run(DeleteBegin(id), db))

\* The update requests of the sequential caller: the word text changed, the
\* word text and another field set to the empty string, an optional field
\* and the tags set, a required and an optional field set.
SeqUpdateRequests ==
    {[NoUpdateRequest EXCEPT !.Word = StringPtr(t_ubi)],
     [NoUpdateRequest EXCEPT !.Word = StringPtr(<<>>)],
     [NoUpdateRequest EXCEPT !.Source = StringPtr(<<>>)],
     [NoUpdateRequest EXCEPT !.PartOfSpeech = StringPtr(<<"n">>),
                             !.Tags = Slice(<<>>)],
     [NoUpdateRequest EXCEPT !.DateLearned = StringPtr(t_20),
                             !.ExampleSentence = StringPtr(<<>>)]}

\* The caller updates a word by id.
SeqUpdate(id, upd) == db.clock < MaxClock /\ SeqCalls(UpdateBegin(id, upd))

\* The caller asks for a random word.
SeqGetRandom ==
    \E picked \in GetRandom(db) :
        SeqReturns([frame |-> GetRandomStep(GetRandomBegin, picked), db |-> db])

NextSeq ==
    \/ \E req \in SeqCreateRequests : SeqCreate(req)
    \/ \E id \in 1..MaxClock : SeqDelete(id)
    \/ \E id \in 1..2, upd \in SeqUpdateRequests : SeqUpdate(id, upd)
    \/ SeqGetRandom
    \/ SeqStep

SpecSeq == InitSeq /\ [][NextSeq]_vars

-----------------------------------------------------------------------------
(* Specification Spec: concurrent callers whose service calls interleave   *)
(* between storage calls.                                                  *)

CreateRequest(word, source, date) ==
    [NoCreateRequest EXCEPT !.Word = word, !.Source = source, !.DateLearned = date]

\* The calls of the concurrent callers.
ConcCreateRequests == {CreateRequest(t_eph, t_Bk, t_15), CreateRequest(t_ubi, t_Art, t_20)}

ConcUpdateRequests ==
    {[NoUpdateRequest EXCEPT !.Word = StringPtr(t_ubi)],
     [NoUpdateRequest EXCEPT !.Source = StringPtr(t_Art)]}

\* word,source,date_learned / eph,Bk,15 / ubi,Bk,15
ConcStreams ==
    {[data |-> WriteRecord(<<n_word, n_source, n_date_learned>>)
               \o WriteRecord(<<t_eph, t_Bk, t_15>>)
               \o WriteRecord(<<t_ubi, t_Bk, t_15>>),
      broken |-> FALSE]}

Init ==
    /\ db = EmptyDB
    /\ procs = [p \in Callers |-> Idle]
    /\ q = NoQuery /\ lastCall = NoCall /\ prevCall = NoPrev /\ exported = NoExport /\ lookup = NoLookup

\* Whether a caller may begin a call: it runs none, and the store is within
\* the bound of the model.
MayBegin(p) == procs[p].pc \in {"idle", "done"} /\ db.clock < MaxClock

\* Whether caller p is at the given place of the given operation.
At(p, op, pc) == procs[p].op = op /\ procs[p].pc = pc

\* Caller p takes a step of its call: a read of the store, which leaves the
\* store as it is, or a write.
Reads(p, frame) ==
    /\ procs' = [procs EXCEPT ![p] = frame]
    /\ UNCHANGED <<db, q, lastCall, prevCall, exported, lookup>>

Writes(p, r) ==
    /\ procs' = [procs EXCEPT ![p] = r.frame]
    /\ db' = r.db
    /\ UNCHANGED <<q, lastCall, prevCall, exported, lookup>>

\* Caller p begins the call whose first frame is given.
Begins(p, frame) ==
    /\ procs' = [procs EXCEPT ![p] = frame]
    /\ UNCHANGED <<db, q, lastCall, prevCall, exported, lookup>>

CallCreate(p, req) == MayBegin(p) /\ Begins(p, CreateBegin(req))
DoCreatePrecheck(p) == At(p, "Create", "precheck") /\ Reads(p, CreatePrecheck(procs[p], db))
DoCreateInsert(p) == At(p, "Create", "insert") /\ Writes(p, CreateInsert(procs[p], db))

CallUpdate(p, id, upd) == MayBegin(p) /\ Begins(p, UpdateBegin(id, upd))
DoUpdateLoad(p) == At(p, "Update", "load") /\ Reads(p, UpdateLoad(procs[p], db))
DoUpdatePrecheck(p) == At(p, "Update", "precheck") /\ Reads(p, UpdatePrecheck(procs[p], db))
DoUpdateWrite(p) == At(p, "Update", "write") /\ Writes(p, UpdateWrite(procs[p], db))

CallDelete(p, id) == MayBegin(p) /\ Begins(p, DeleteBegin(id))
DoDelete(p) == At(p, "Delete", "delete") /\ Writes(p, DeleteStep(procs[p], db))

CallImportCSV(p, stream) == MayBegin(p) /\ Begins(p, ImportBegin(stream))
DoImportRow(p) == At(p, "ImportCSV", "row") /\ Reads(p, ImportRow(procs[p]))
DoImportPrecheck(p) == At(p, "ImportCSV", "precheck") /\ Reads(p, ImportPrecheck(procs[p], db))
DoImportInsert(p) == At(p, "ImportCSV", "insert") /\ Writes(p, ImportInsert(procs[p], db))

Next ==
    \E p \in Callers :
        \/ \E req \in ConcCreateRequests : CallCreate(p, req)
        \/ DoCreatePrecheck(p)
        \/ DoCreateInsert(p)
        \/ \E id \in 1..2, upd \in ConcUpdateRequests : CallUpdate(p, id, upd)
        \/ DoUpdateLoad(p)
        \/ DoUpdatePrecheck(p)
        \/ DoUpdateWrite(p)
        \/ \E id \in 1..2 : CallDelete(p, id)
        \/ DoDelete(p)
        \/ \E stream \in ConcStreams : CallImportCSV(p, stream)
        \/ DoImportRow(p)
        \/ DoImportPrecheck(p)
        \/ DoImportInsert(p)

Spec == Init /\ [][Next]_vars

-----------------------------------------------------------------------------
(* Specification SpecRace: two callers, each with one call, an import or a *)
(* create, on an empty store; the steps of the two calls interleave.       *)

\* Whether caller p has made no call yet.
Fresh(p) == procs[p].pc = "idle"

NextRace ==
    \E p \in Callers :
        \/ \E req \in ConcCreateRequests : Fresh(p) /\ CallCreate(p, req)
        \/ DoCreatePrecheck(p)
        \/ DoCreateInsert(p)
        \/ \E stream \in ConcStreams : Fresh(p) /\ CallImportCSV(p, stream)
        \/ DoImportRow(p)
        \/ DoImportPrecheck(p)
        \/ DoImportInsert(p)

SpecRace == Init /\ [][NextRace]_vars

-----------------------------------------------------------------------------
(* Specification SpecCSV: a store filled through the service is exported,  *)
(* and the export is imported, into a new store or into the same one.      *)

t_n == <<"n">>

\* The words a store to export is made of: plain fields, fields the writer
\* quotes (a comma, a quote, a line break, a leading space), an optional
\* field set to the empty string, and tags that hold a comma or are empty.
ExportRequests ==
    {[NoCreateRequest EXCEPT !.Word = t_eph, !.Source = t_Bk, !.DateLearned = t_15,
                             !.PartOfSpeech = StringPtr(t_n),
                             !.Tags = Slice(<<t_lit, t_x>>)],
     [NoCreateRequest EXCEPT !.Word = t_ubi, !.Source = t_Art, !.DateLearned = t_20,
                             !.ExampleSentence = StringPtr(<<"h", "\"", "i">>)],
     [NoCreateRequest EXCEPT !.Word = t_hip, !.Source = <<"A", ",", "B">>,
                             !.DateLearned = t_28,
                             !.ExampleSentence = StringPtr(<<"l", "\n", "m">>),
                             !.Tags = Slice(<<>>)],
     [NoCreateRequest EXCEPT !.Word = t_tab, !.Source = t_Bk, !.DateLearned = t_15,
                             !.PartOfSpeech = StringPtr(<<>>)],
     [NoCreateRequest EXCEPT !.Word = <<" ", "x">>, !.Source = t_Bk,
                             !.DateLearned = t_15],
     [NoCreateRequest EXCEPT !.Word = t_lit, !.Source = t_Bk, !.DateLearned = t_15,
                             !.Tags = Slice(<<<<"a", ",", "b">>>>)],
     [NoCreateRequest EXCEPT !.Word = t_LIT, !.Source = t_Bk, !.DateLearned = t_20,
                             !.Tags = Slice(<<<<>>>>)],
     [NoCreateRequest EXCEPT !.Word = t_2, !.Source = <<" ">>, !.DateLearned = t_15]}

\* The stores that up to n successive creates of distinct words build.
RECURSIVE CreatedStores(_)
CreatedStores(n) ==
    IF n = 0 THEN {EmptyDB}
    ELSE CreatedStores(n - 1)
         \cup {Run(CreateBegin(req), d).db :
                  req \in ExportRequests, d \in CreatedStores(n - 1)}

InitCSV ==
    /\ db \in CreatedStores(MaxExportRows)
    /\ lastCall = NoCall /\ exported = NoExport /\ lookup = NoLookup
    /\ q = NoQuery /\ procs = [p \in Callers |-> Idle] /\ prevCall = NoPrev

CsvReturns(r) ==
    /\ db' = r.db
    /\ lastCall' = [frame |-> r.frame, before |-> db]
    /\ UNCHANGED <<q, procs, prevCall, lookup>>

\* The store is exported; the output and the rows it was taken from are kept.
CsvExport ==
    /\ ~exported.done
    /\ CsvReturns(Run(ExportBegin, db))
    /\ exported' = [done |-> lastCall'.frame.err = NoError,
                    text |-> lastCall'.frame.sink, from |-> db.words]

\* A new, empty store is opened.
CsvNewStore ==
    /\ exported.done /\ lastCall.frame.op = "ExportCSV"
    /\ db' = EmptyDB
    /\ UNCHANGED <<q, procs, lastCall, prevCall, exported, lookup>>

\* The import of the exported text into the store begins: the header is
\* read.
CsvImport ==
    /\ exported.done /\ lastCall.frame.op = "ExportCSV"
    /\ CsvReturns([frame |-> ImportBegin([data |-> exported.text, broken |-> FALSE]),
                   db |-> db])
    /\ UNCHANGED exported

\* The import reads its next record or makes its next storage call.
CsvProceeds(r) ==
    /\ db' = r.db
    /\ lastCall' = [lastCall EXCEPT !.frame = r.frame]
    /\ UNCHANGED <<q, procs, prevCall, exported, lookup>>

CsvImportStep ==
    /\ lastCall.frame.op = "ImportCSV" /\ lastCall.frame.pc # "done"
    /\ CsvProceeds(Step(lastCall.frame, db))

NextCSV == CsvExport \/ CsvNewStore \/ CsvImport \/ CsvImportStep

SpecCSV == InitCSV /\ [][NextCSV]_vars

-----------------------------------------------------------------------------
(* Specification SpecImport: one import runs step by step; its caller may  *)
(* cancel it at any step, and other callers create words between steps.    *)

\* A line of input as typed: the fields with commas between, no quoting.
Line(fields) == Join(fields, <<",">>) \o <<"\n">>

Header3 == Line(<<n_word, n_source, n_date_learned>>)

\* The inputs of the import: valid rows; headers that lack a column, differ
\* in case and spacing, or are absent; rows that lack a required field, at
\* once or after trimming; a blank line and a field over two lines before
\* such a row; rows that do not parse; a word twice.
ImportInputs ==
    {Header3 \o Line(<<t_eph, t_Bk, t_15>>) \o Line(<<t_ubi, t_Art, t_20>>),
     Line(<<n_word, n_source>>) \o Line(<<t_eph, t_Bk>>),
     Line(<<n_source, n_date_learned>>) \o Line(<<t_Bk, t_15>>),
     Line(<<<<" ", "W", "o", "r", "d", " ">>, <<"S", "O", "U", "R", "C", "E">>,
            <<"D", "a", "t", "e", "_", "L", "e", "a", "r", "n", "e", "d">>>>)
         \o Line(<<t_eph, t_Bk, t_15>>),
     <<>>,
     Header3,
     Header3 \o Line(<<t_eph, <<>>, t_15>>) \o Line(<<t_ubi, t_Art, t_20>>),
     Header3 \o Line(<<t_eph, t_Bk, <<>>>>) \o Line(<<t_ubi, <<" ">>, t_20>>),
     Header3 \o <<"\n">> \o Line(<<t_eph, <<>>, t_15>>)
         \o Line(<<t_ubi, t_Art, t_20>>),
     Header3 \o Line(<<<<"\"", "e", "\n", "p", "\"">>, t_Bk, t_15>>)
         \o Line(<<t_ubi, <<>>, t_20>>),
     Header3 \o Line(<<t_eph, t_Bk>>) \o Line(<<t_ubi, t_Art, t_20>>),
     Header3 \o Line(<<<<"e", "\"", "p">>, t_Bk, t_15>>)
         \o Line(<<t_ubi, t_Art, t_20>>),
     Header3 \o Line(<<t_eph, t_Bk, t_15>>) \o Line(<<t_eph, t_Art, t_20>>)}

ImportStreams == {[data |-> data, broken |-> FALSE] : data \in ImportInputs}

\* The words other callers create while the import runs.
OtherRequests == {CreateRequest(t_eph, t_Art, t_28), CreateRequest(t_ubi, t_Bk, t_28)}

InitImport ==
    /\ db \in {EmptyDB, Run(CreateBegin(CreateRequest(t_eph, t_Bk, t_15)), EmptyDB).db}
    /\ lastCall = NoCall
    /\ q = NoQuery /\ procs = [p \in Callers |-> Idle]
    /\ prevCall = NoPrev /\ exported = NoExport /\ lookup = NoLookup

\* Whether the import is at the given place.
ImpAt(pc) == lastCall.frame.op = "ImportCSV" /\ lastCall.frame.pc = pc

\* The import reads the store, or its own input, and moves on.
ImpReads(frame) ==
    /\ lastCall' = [lastCall EXCEPT !.frame = frame]
    /\ UNCHANGED <<db, q, procs, prevCall, exported, lookup>>

ImpWrites(r) ==
    /\ lastCall' = [lastCall EXCEPT !.frame = r.frame]
    /\ db' = r.db
    /\ UNCHANGED <<q, procs, prevCall, exported, lookup>>

ImpCall(stream) ==
    /\ lastCall.frame.pc = "idle"
    /\ lastCall' = [frame |-> ImportBegin(stream), before |-> db]
    /\ UNCHANGED <<db, q, procs, prevCall, exported, lookup>>

ImpRow == ImpAt("row") /\ ImpReads(ImportRow(lastCall.frame))
ImpPrecheck == ImpAt("precheck") /\ ImpReads(ImportPrecheck(lastCall.frame, db))
ImpInsert == ImpAt("insert") /\ ImpWrites(ImportInsert(lastCall.frame, db))

\* The caller cancels the context of the import while rows are processed.
ImpCancel ==
    /\ lastCall.frame.op = "ImportCSV"
    /\ lastCall.frame.pc \in {"row", "precheck", "insert"}
    /\ lastCall.frame.ctx = Live
    /\ ImpReads([lastCall.frame EXCEPT !.ctx = Canceled])

\* Another caller begins the create of a word while the import runs; its
\* duplicate check and its insert are steps of their own.
OtherCaller == "c2"

ImpOtherCreate(req) ==
    /\ lastCall.frame.op = "ImportCSV"
    /\ lastCall.frame.pc \in {"row", "precheck", "insert"}
    /\ CallCreate(OtherCaller, req)

NextImport ==
    \/ \E stream \in ImportStreams : ImpCall(stream)
    \/ ImpRow
    \/ ImpPrecheck
    \/ ImpInsert
    \/ ImpCancel
    \/ \E req \in OtherRequests : ImpOtherCreate(req)
    \/ DoCreatePrecheck(OtherCaller)
    \/ DoCreateInsert(OtherCaller)

SpecImport == InitImport /\ [][NextImport]_vars

-----------------------------------------------------------------------------
(* Specification SpecRead: one import runs alone, step by step, on streams  *)
(* that end and on streams whose reads fail.                               *)

\* The row loop is followed for this many rows and no further.
MaxLineNum == 6

\* The streams of the import: those that end, and streams that fail with a
\* read error where the others end, at the header, after it, after a row.
ReadStreams ==
    ImportStreams
    \cup {[data |-> data, broken |-> TRUE] :
             data \in {<<>>, Header3, Header3 \o Line(<<t_eph, t_Bk, t_15>>)}}

\* The import begins on a stream.
ReadCall(stream) == stream \in ReadStreams /\ ImpCall(stream)

\* The next record is read.
ReadRow == lastCall.frame.lineNum < MaxLineNum /\ ImpRow

NextRead ==
    \/ \E stream \in ReadStreams : ReadCall(stream)
    \/ ReadRow
    \/ ImpPrecheck
    \/ ImpInsert

SpecRead == InitImport /\ [][NextRead]_vars

-----------------------------------------------------------------------------
(* Specification SpecDict: words are looked up at the dictionary source,   *)
(* by their text and, through the catalog, by the id of a stored word.     *)

\* Largest number of entries a reply of the source holds.
MaxEntries == 3

p_x == <<"/", "x", "/">>
p_y == <<"/", "y", "/">>
u_a == <<"a", ".", "m", "p", "3">>
u_b == <<"b", ".", "m", "p", "3">>
u_1 == <<"u", "1">>
u_2 == <<"u", "2">>

Variant(text, audio) == [Text |-> text, Audio |-> audio]

Entry(phonetic, phonetics, url) ==
    [Word |-> t_eph, Phonetic |-> phonetic, Phonetics |-> phonetics,
     Meanings |-> <<[PartOfSpeech |-> <<"n">>, Definitions |-> <<>>]>>,
     SourceURL |-> url]

\* The entries the source answers with: a phonetic of its own; none, and
\* the first variant with audio only, the second with text; none, and the
\* text in the second of three variants, the audio in the third; nothing at
\* all, no source URL either; none, and text and audio in one variant.
SampleEntries ==
    {Entry(p_y, <<Variant(p_x, u_a)>>, u_1),
     Entry(<<>>, <<Variant(<<>>, u_a), Variant(p_x, <<>>)>>, u_2),
     Entry(<<>>, <<Variant(<<>>, <<>>), Variant(p_x, <<>>), Variant(p_y, u_b)>>, u_1),
     Entry(<<>>, <<>>, <<>>),
     Entry(<<>>, <<Variant(p_x, u_a)>>, u_2)}

\* The entry lists of up to n sample entries.
RECURSIVE EntryLists(_)
EntryLists(n) ==
    IF n = 0 THEN {<<>>}
    ELSE EntryLists(n - 1)
         \cup {Append(l, e) : l \in EntryLists(n - 1), e \in SampleEntries}

\* What the source may answer: no connection, a timeout; the not-found
\* status, with the body the source sends and with entries; other statuses;
\* the success status with a body that does not decode and with every
\* entry list.
DictReplies ==
    {Failed("connection refused"), Failed("context deadline exceeded")}
    \cup {Response(status, body) :
             status \in {StatusNotFound, 204, 500, 503},
             body \in {NoBody, Entries(<<>>),
                       Entries(<<Entry(p_y, <<>>, u_1)>>)}}
    \cup {Response(StatusOK, NoBody)}
    \cup {Response(StatusOK, Entries(l)) : l \in EntryLists(MaxEntries)}

InitDict ==
    /\ db \in {EmptyDB,
               Run(CreateBegin(CreateRequest(t_eph, t_Bk, t_15)), EmptyDB).db,
               Run(CreateBegin(CreateRequest(<<"a", "%", "b">>, t_Bk, t_15)), EmptyDB).db}
    /\ lookup = NoLookup
    /\ q = NoQuery /\ procs = [p \in Callers |-> Idle]
    /\ lastCall = NoCall /\ prevCall = NoPrev /\ exported = NoExport

\* The texts in the place of the id of the URL.
IdTexts ==
    {<<"1">>, <<"2">>, <<"0", "1">>, <<"+", "1">>, <<"-", "1">>, <<>>,
     <<"1", ".", "5">>, <<"1", "_", "0">>, <<" ", "1">>,
     MaxInt64Digits, MinInt64Digits, Append(MaxInt64Digits, "9"),
     Append(Append(MaxInt64Digits, "9"), "x"), Append(MinInt64Digits, "x")}

\* The words looked up by their text.
LookupWords == {t_eph, <<"e", "\n">>, <<"a", "%", "b">>, <<"a", "%", "2", "b">>}

\* A word is looked up by its text.  The service keeps nothing between
\* calls, so a behaviour holds one call.
DictLookup(word, reply) ==
    /\ lookup.op = "none"
    /\ lookup' = GetDefinitionLookup([NoLookup EXCEPT !.op = "Lookup", !.word = word,
                                                      !.before = db],
                                     reply, Lookup(word, reply))
    /\ UNCHANGED <<db, q, procs, lastCall, prevCall, exported>>

\* The API is asked for the definition of a word with a text for its id
\* that is no 64-bit integer: the answer is given without a service call.
DictBadID(idText) ==
    /\ lookup.op = "none"
    /\ ParseInt(idText).err # NoError
    /\ lookup' = [NoLookup EXCEPT !.op = "GetWordDefinition", !.pc = "done",
                                  !.idText = idText, !.before = db,
                                  !.answer = GetWordDefinition(ParseInt(idText).err,
                                                               NoError)]
    /\ UNCHANGED <<db, q, procs, lastCall, prevCall, exported>>

\* The API is asked for the definition of the word with the id: the
\* service loads the word.
DictGetDefinition(idText) ==
    /\ lookup.op = "none"
    /\ ParseInt(idText).err = NoError
    /\ lookup' = Answered(GetDefinition([NoLookup EXCEPT !.op = "GetDefinition",
                                                         !.idText = idText,
                                                         !.id = ParseInt(idText).value],
                                        db))
    /\ UNCHANGED <<db, q, procs, lastCall, prevCall, exported>>

\* The source answers the request for the word loaded.
DictLookupAnswer(reply) ==
    /\ lookup.op = "GetDefinition" /\ lookup.pc = "lookup"
    /\ lookup' = Answered(GetDefinitionLookup(lookup, reply, Lookup(lookup.word, reply)))
    /\ UNCHANGED <<db, q, procs, lastCall, prevCall, exported>>

\* Another caller deletes a word while the source is asked.
DictOtherDelete(id) ==
    /\ lookup.op = "GetDefinition" /\ lookup.pc = "lookup"
    /\ Delete(db, id).err = NoError
    /\ db' = Delete(db, id).db
    /\ UNCHANGED <<lookup, q, procs, lastCall, prevCall, exported>>

NextDict ==
    \/ \E word \in LookupWords, reply \in DictReplies : DictLookup(word, reply)
    \/ \E idText \in IdTexts : DictBadID(idText)
    \/ \E idText \in IdTexts : DictGetDefinition(idText)
    \/ \E reply \in DictReplies : DictLookupAnswer(reply)
    \/ \E id \in 1..2 : DictOtherDelete(id)

SpecDict == InitDict /\ [][NextDict]_vars

-----------------------------------------------------------------------------
(* Properties of the listing queries.                                      *)

\* The ids of the words of a list result.
IDsOf(words) == {words[i].ID : i \in 1..Len(words)}

\* Whether sub occurs in s as a contiguous run of equal characters.
Contains(s, sub) ==
    \E i \in 0..(Len(s) - Len(sub)) : SubSeq(s, i + 1, i + Len(sub)) = sub

\* Whether a stored row's decoded tag list has an entry equal to t.
HasTag(row, t) == t \in Range(UnmarshalTags(row.tags).Elems)

\* a <= b in the order of strings: a is a prefix of b, or the first
\* character in which they differ is smaller in a.
StringLeq(a, b) ==
    \/ Len(a) <= Len(b) /\ SubSeq(b, 1, Len(a)) = a
    \/ \E i \in 1..Len(a) :
           /\ i <= Len(b)
           /\ SubSeq(a, 1, i - 1) = SubSeq(b, 1, i - 1)
           /\ Ord(a[i]) < Ord(b[i])

\* Whether a date lies within the bounds of a filter, an unset bound
\* imposing nothing.
InDateRange(date, filter) ==
    /\ filter.FromDate # <<>> => StringLeq(filter.FromDate, date)
    /\ filter.ToDate # <<>> => StringLeq(date, filter.ToDate)

\* A filter without its pagination, and without its date bounds.
Unpaged(filter) == [filter EXCEPT !.Limit = 0, !.Offset = 0]
Undated(filter) == [filter EXCEPT !.FromDate = <<>>, !.ToDate = <<>>]

\* Whether a filter sets the tag and nothing else.
TagOnly(filter) == filter.Tag # <<>> /\ [filter EXCEPT !.Tag = <<>>] = EmptyFilter

\* Whether a filter sets the search term and nothing else.
SearchOnly(filter) ==
    filter.Search # <<>> /\ [filter EXCEPT !.Search = <<>>] = EmptyFilter

\* C5: list and count with the filter tag = t select exactly the words whose
\* decoded tag list has an entry equal to t: no word is matched through a
\* substring, a case variant or a pattern, and no holder of t is missed.
C5_TagFilterIsExactMembership ==
    TagOnly(q.filter) =>
        /\ q.op = "List" =>
              IDsOf(q.words) = {r.id : r \in {x \in db.words : HasTag(x, q.filter.Tag)}}
        /\ q.op = "Count" =>
              q.count = Cardinality({x \in db.words : HasTag(x, q.filter.Tag)})

\* C6: list and count with the filter search = s select exactly the words
\* whose word text contains s as a contiguous substring, compared
\* case-sensitively and literally.
C6_SearchIsLiteralSubstring ==
    SearchOnly(q.filter) =>
        /\ q.op = "List" =>
              IDsOf(q.words) =
                  {r.id : r \in {x \in db.words : Contains(x.word, q.filter.Search)}}
        /\ q.op = "Count" =>
              q.count = Cardinality({x \in db.words : Contains(x.word, q.filter.Search)})

\* The words of a sequence whose date lies within the bounds of a filter.
RECURSIVE WithinDates(_, _)
WithinDates(words, filter) ==
    IF words = <<>> THEN <<>>
    ELSE (IF InDateRange(Head(words).DateLearned, filter)
          THEN <<Head(words)>> ELSE <<>>)
         \o WithinDates(Tail(words), filter)

\* C7: list with a date filter returns exactly the words whose dateLearned d
\* has fromDate <= d <= toDate as strings, bounds included; an unset bound
\* imposes nothing, and the date predicate is AND-ed with the other
\* predicates of the filter.
C7_DateRangeInclusive ==
    (q.op = "List" /\ q.filter.Limit = 0 /\ q.filter.Offset = 0) =>
        /\ q.err = NoError
        /\ q.words = WithinDates(List(db, Undated(q.filter)).words, q.filter)

\* Witness of C7: a list under both bounds returned a word dated exactly at
\* the lower bound and one dated exactly at the upper bound, left out a
\* stored word outside the bounds, and another predicate was set too.
C7_Witness ==
    /\ q.op = "List" /\ q.filter.FromDate = t_15 /\ q.filter.ToDate = t_20
    /\ q.filter.Source = t_Bk
    /\ \E i \in 1..Len(q.words) : q.words[i].DateLearned = t_15
    /\ \E i \in 1..Len(q.words) : q.words[i].DateLearned = t_20
    /\ \E r \in db.words : r.date_learned = t_20 /\ r.id \notin IDsOf(q.words)

\* Whether a list result is in the order date descending, id descending.
IsSorted(words) ==
    \A i, j \in 1..Len(words) :
        i < j => \/ ~StringLeq(words[i].DateLearned, words[j].DateLearned)
                 \/ /\ words[i].DateLearned = words[j].DateLearned
                    /\ words[i].ID > words[j].ID

\* The pages of size limit of a filter, one after the other.
PagesOf(filter, n) ==
    Concat([k \in 1..(n + 1) |->
               List(db, [filter EXCEPT !.Offset = (k - 1) * filter.Limit]).words])

\* C8: list returns the matching words by dateLearned descending, ties by id
\* descending, and applies limit and offset after sorting: with limit L > 0
\* and offset O the result is positions O+1 .. O+L of the sorted sequence,
\* and the consecutive pages concatenate to the full sorted list.
C8_SortedThenPaged ==
    q.op = "List" =>
        LET full == List(db, Unpaged(q.filter)).words
            upto == q.filter.Offset + q.filter.Limit
        IN  /\ IsSorted(q.words)
            /\ q.filter.Limit > 0 =>
                  /\ q.err = NoError
                  /\ q.words = SubSeq(full, q.filter.Offset + 1,
                                      IF upto < Len(full) THEN upto ELSE Len(full))
                  /\ PagesOf(q.filter, Len(full)) = full

\* Witness of C8: list(limit=2, offset=2) over three stored words, two of
\* them sharing a date, returned exactly one record: the word of the
\* earliest date with, among those, the smallest id.
C8_Witness ==
    /\ q.op = "List" /\ q.filter.Limit = 2 /\ q.filter.Offset = 2
    /\ q.filter = [EmptyFilter EXCEPT !.Limit = 2, !.Offset = 2]
    /\ Cardinality(db.words) = 3
    /\ Len(q.words) = 1
    /\ \E r \in db.words : r.id # q.words[1].ID /\ r.date_learned = q.words[1].DateLearned
    /\ \A r \in db.words :
           r.id # q.words[1].ID =>
               \/ ~StringLeq(r.date_learned, q.words[1].DateLearned)
               \/ r.date_learned = q.words[1].DateLearned /\ r.id > q.words[1].ID

\* C9: count(f) is the number of records list returns for f with limit and
\* offset cleared, whatever f's limit and offset; with the empty filter list
\* returns every stored word and count the size of the store.
C9_CountMatchesList ==
    /\ q.op = "Count" =>
          /\ q.err = NoError
          /\ q.count = Len(List(db, Unpaged(q.filter)).words)
    /\ (q.op = "Count" /\ q.filter = EmptyFilter) =>
          q.count = Cardinality(db.words)
    /\ (q.op = "List" /\ q.filter = EmptyFilter) =>
          /\ IDsOf(q.words) = {r.id : r \in db.words}
          /\ Len(q.words) = Cardinality(db.words)

\* Witness of C9: a count under a filter that pages (limit 1, offset 2) and
\* selects by source answered 2, more than the page could hold.
C9_Witness ==
    /\ q.op = "Count" /\ q.filter.Limit = 1 /\ q.filter.Offset = 2
    /\ q.filter.Source = t_Bk
    /\ q.count = 2
    /\ Cardinality(db.words) = 3

-----------------------------------------------------------------------------
(* Properties of the calls that write.                                     *)

\* The rows of the store that hold a word text.
RowsOf(text) == {r \in db.words : r.word = text}

\* C1: under any interleaving of create, update, import and delete calls,
\* the store never holds two rows with the same word text.
C1_WordTextUnique == \A r1, r2 \in db.words : r1.word = r2.word => r1 = r2

\* An insert that passed its duplicate check was refused by the constraint,
\* and the store holds the row that won.
C1_Witness ==
    \E p \in Callers :
        /\ procs[p].pc = "done" /\ procs[p].err = ErrUniqueWord
        /\ Cardinality(RowsOf(procs[p].word.Word)) = 1
        /\ Cardinality(db.words) = 2

\* The last two calls were creates of one non-empty word text that the store
\* did not hold, each with a source and a date learned.
CreatedTwice ==
    /\ lastCall.frame.op = "Create" /\ prevCall.op = "Create"
    /\ lastCall.frame.pc = "done"
    /\ prevCall.req.Word = lastCall.frame.req.Word
    /\ \A r \in prevCall.before.words : r.word # prevCall.req.Word
    /\ \A req \in {prevCall.req, lastCall.frame.req} :
           req.Word # <<>> /\ req.Source # <<>> /\ req.DateLearned # <<>>

\* A row holds the fields of a create request.
RowHolds(r, req) ==
    /\ r.word = req.Word /\ r.source = req.Source
    /\ r.date_learned = req.DateLearned
    /\ r.part_of_speech = req.PartOfSpeech
    /\ r.example_sentence = req.ExampleSentence
    /\ r.tags = MarshalTags(IF req.Tags.IsNil THEN Slice(<<>>) ELSE req.Tags)

\* C2: of two successive creates of one word text the first succeeds and the
\* second returns the already-exists error; the store then holds exactly one
\* row with that text, with the fields of the first request, and the second
\* call has not changed the store.
C2_SecondCreateConflicts ==
    CreatedTwice =>
        /\ prevCall.err = NoError
        /\ lastCall.frame.err = ErrAlreadyExists
        /\ db = lastCall.before
        /\ Cardinality(RowsOf(prevCall.req.Word)) = 1
        /\ \A r \in RowsOf(prevCall.req.Word) : RowHolds(r, prevCall.req)

\* The second create asked for other fields than the first.
C2_Witness ==
    /\ CreatedTwice
    /\ lastCall.frame.pc = "done"
    /\ lastCall.frame.req.Source # prevCall.req.Source
    /\ lastCall.frame.req.Tags # prevCall.req.Tags

\* C3: when two creates of one word text both pass the duplicate check
\* before either inserts, the one whose insert fails returns the same
\* already-exists error that the duplicate check returns.
C3_RaceLoserReportsConflict ==
    \A p, o \in Callers :
        ( /\ p # o
          /\ procs[p].op = "Create" /\ procs[o].op = "Create"
          /\ procs[p].req.Word = procs[o].req.Word
          /\ procs[p].pc = "done" /\ procs[o].pc = "done"
          /\ procs[p].calls = <<"GetByWord", "Create">>
          /\ procs[o].calls = <<"GetByWord", "Create">>
          /\ procs[o].err = NoError /\ procs[p].err # NoError )
        => procs[p].err = ErrAlreadyExists

\* The last call was a create with a required field empty.
CreatedInvalid ==
    /\ lastCall.frame.op = "Create"
    /\ \/ lastCall.frame.req.Word = <<>>
       \/ lastCall.frame.req.Source = <<>>
       \/ lastCall.frame.req.DateLearned = <<>>

\* C4: a create with an empty word, source or date learned returns a
\* validation error, makes no storage call and leaves the store unchanged.
C4_InvalidCreateRejected ==
    CreatedInvalid =>
        /\ lastCall.frame.pc = "done"
        /\ lastCall.frame.err \in ValidationErrors
        /\ lastCall.frame.calls = <<>>
        /\ db = lastCall.before

\* A create with only the date learned empty, on a store that holds a row.
C4_Witness ==
    /\ CreatedInvalid
    /\ lastCall.frame.req.Word # <<>> /\ lastCall.frame.req.Source # <<>>
    /\ lastCall.frame.err = ErrDateRequired
    /\ db.words # {}

-----------------------------------------------------------------------------
(* Properties of export and import.                                        *)

\* A row as the tuple of its fields other than its id and timestamps.
TupleOf(r) ==
    <<r.word, r.source, r.date_learned, r.part_of_speech, r.example_sentence,
      UnmarshalTags(r.tags)>>

\* The last call imported the exported text into an empty store.
RoundTripped ==
    /\ exported.done
    /\ lastCall.frame.op = "ImportCSV" /\ lastCall.frame.pc = "done"
    /\ lastCall.before.words = {}

\* C10: an export imported into an empty store gives a store with the same
\* tuples of word, source, date learned, part of speech, example sentence
\* and tags as the exported one (a set, as no two rows share a word), every
\* exported word counted as imported and none as skipped.
C10_RoundTrip ==
    RoundTripped =>
        /\ lastCall.frame.err = NoError
        /\ {TupleOf(r) : r \in db.words} = {TupleOf(r) : r \in exported.from}
        /\ Cardinality(db.words) = Cardinality(exported.from)
        /\ lastCall.frame.result.Imported = Cardinality(exported.from)
        /\ lastCall.frame.result.Skipped = 0

-----------------------------------------------------------------------------
(* Properties of the import.                                               *)

\* The first record of an input, and the reader after it.
HeaderOf(stream) == Read(NewReader(stream))

\* The column names of a header: trimmed, in lower case.
HeaderNames(stream) ==
    {ToLower(TrimSpace(HeaderOf(stream).record[i])) :
        i \in 1..Len(HeaderOf(stream).record)}

\* The input has a header, and the header lacks a required column.
LacksColumn(stream) ==
    /\ HeaderOf(stream).err = NoError
    /\ ~({n_word, n_source, n_date_learned} \subseteq HeaderNames(stream))

\* C11: an import whose header lacks word, source or date_learned returns
\* the missing-column error and no result, with no data row read, no storage
\* call made and the store unchanged.
C11_MissingColumnFailsImport ==
    (lastCall.frame.op = "ImportCSV" /\ LacksColumn(lastCall.frame.stream)) =>
        /\ lastCall.frame.pc = "done"
        /\ lastCall.frame.err = ErrMissingColumn
        /\ ~lastCall.frame.hasResult /\ lastCall.frame.result = NoImportResult
        /\ lastCall.frame.reader = HeaderOf(lastCall.frame.stream).reader
        /\ lastCall.frame.calls = <<>>
        /\ db = lastCall.before

\* Such an import, with data rows left unread, on a store that holds a row.
C11_Witness ==
    /\ lastCall.frame.op = "ImportCSV" /\ LacksColumn(lastCall.frame.stream)
    /\ lastCall.frame.pc = "done"
    /\ lastCall.frame.reader.input # <<>>
    /\ db.words # {}

\* The number of line breaks in a text.
RECURSIVE LineBreaks(_)
LineBreaks(text) ==
    IF text = <<>> THEN 0
    ELSE (IF Head(text) = "\n" THEN 1 ELSE 0) + LineBreaks(Tail(text))

\* The records an input holds after the reader rd, each with its read error
\* and the line of the input it begins on.
RECURSIVE RowsFrom(_, _, _)
RowsFrom(data, rd, rows) ==
    LET from == SkipEmptyLines(rd.input, rd.broken)
        read == Read(rd)
        at   == Len(data) - Len(from.line) - Len(from.rest)
    IN  IF read.err = EOF THEN rows
        ELSE RowsFrom(data, read.reader,
                      Append(rows, [record |-> read.record, err |-> read.err,
                                    line |-> 1 + LineBreaks(SubSeq(data, 1, at))]))

DataRows(stream) == RowsFrom(stream.data, HeaderOf(stream).reader, <<>>)

\* A field of a data row by its column name, trimmed.
FieldOf(stream, row, name) ==
    TrimSpace(row.record[ColumnIndex(HeaderOf(stream).record, name)])

\* The required fields a data row leaves empty.
MissingFields(stream, row) ==
    {name \in {n_word, n_source, n_date_learned} : FieldOf(stream, row, name) = <<>>}

\* The row parses and leaves a required field empty.
LacksField(stream, row) == row.err = NoError /\ MissingFields(stream, row) # {}

\* The import has returned a result and was not canceled.
ImportReturned ==
    /\ lastCall.frame.op = "ImportCSV" /\ lastCall.frame.pc = "done"
    /\ lastCall.frame.hasResult /\ lastCall.frame.ctx = Live

\* The error entries of the import for the row that begins on a line.
EntriesAt(line) ==
    {k \in 1..Len(lastCall.frame.result.Errors) :
        lastCall.frame.result.Errors[k].line = line}

\* C12 (line): a data row with a required field empty after trimming is
\* skipped with a missing-field entry that carries the line the row is on,
\* and no row with an empty required field is stored.
C12_EntryCarriesLine ==
    ImportReturned =>
        LET stream == lastCall.frame.stream
            rows   == DataRows(stream)
        IN  /\ \A i \in 1..Len(rows) :
                   LacksField(stream, rows[i]) =>
                       \E k \in EntriesAt(rows[i].line) :
                           lastCall.frame.result.Errors[k].msg = ErrMissingField
            /\ \A r \in db.words :
                   r.word # <<>> /\ r.source # <<>> /\ r.date_learned # <<>>

\* C12 (field): the entries of two rows that lack different fields differ,
\* as entries that name the missing field must.
C12_EntryNamesField ==
    ImportReturned =>
        LET stream == lastCall.frame.stream
            rows   == DataRows(stream)
            errors == lastCall.frame.result.Errors
        IN  \A i, j \in 1..Len(rows) :
                ( /\ LacksField(stream, rows[i]) /\ LacksField(stream, rows[j])
                  /\ MissingFields(stream, rows[i]) # MissingFields(stream, rows[j]) )
                => \A k \in EntriesAt(rows[i].line), l \in EntriesAt(rows[j].line) :
                       errors[k].msg # errors[l].msg

\* C12 (counts): the valid rows of an input with such a row are imported,
\* and each such row counts as skipped.
C12_OthersImported ==
    ImportReturned =>
        LET stream == lastCall.frame.stream
            rows   == DataRows(stream)
            lacking == {i \in 1..Len(rows) : LacksField(stream, rows[i])}
        IN  /\ lastCall.frame.result.Skipped >= Cardinality(lacking)
            /\ \A i \in 1..Len(rows) :
                   (rows[i].err = NoError /\ i \notin lacking) =>
                       \E r \in db.words : r.word = FieldOf(stream, rows[i], n_word)

\* C12: a data row with a required field empty after trimming is skipped
\* with one entry that names the missing field and carries the row's line,
\* and the valid rows of the input are imported.
C12_MissingFieldRowSkipped ==
    C12_EntryCarriesLine /\ C12_EntryNamesField /\ C12_OthersImported

\* The rows stored since the import was called.
StoredSince(call) == {r \in db.words : r.created_at > call.before.clock}

\* C13: once the header has passed, no failure of a row is returned as the
\* error of the import: every row read so far is counted as imported or as
\* skipped with one entry, the import ends only when the input is consumed,
\* with every data row counted, and the imported rows are in the store.
C13_RowFailuresAreSkipped ==
    (lastCall.frame.op = "ImportCSV" /\ lastCall.frame.hasResult) =>
        LET frame  == lastCall.frame
            result == lastCall.frame.result
        IN  /\ frame.err = NoError
            /\ Len(result.Errors) = result.Skipped
            /\ result.Imported + result.Skipped =
                  frame.lineNum - (IF frame.pc = "row" THEN 1 ELSE 2)
            /\ Cardinality(StoredSince(lastCall)) >= result.Imported
            /\ lastCall.before.words \subseteq db.words
            /\ frame.pc = "done" =>
                  /\ frame.reader.input = <<>>
                  /\ result.Imported + result.Skipped = Len(DataRows(frame.stream))

\* The insert of the first row lost to another caller's create, and the row
\* after it was imported.
C13_Witness ==
    /\ lastCall.frame.op = "ImportCSV" /\ lastCall.frame.pc = "done"
    /\ lastCall.frame.result.Imported = 1
    /\ lastCall.frame.result.Errors = <<[line |-> 2, msg |-> ErrUniqueWord]>>

\* The import went on to a row after its context was canceled.
WentOnCanceled ==
    /\ lastCall.frame.op = "ImportCSV" /\ lastCall.frame.ctx = Canceled
    /\ \E k \in 1..Len(lastCall.frame.result.Errors) :
           lastCall.frame.result.Errors[k].msg = ErrInsertCanceled

\* C14: an import whose context is canceled while rows are processed stops
\* and returns an error and no result; it does not process the rows left
\* and return a result with no error.
C14_CancelAbortsImport ==
    WentOnCanceled =>
        ~(/\ lastCall.frame.pc = "done"
          /\ lastCall.frame.err = NoError
          /\ lastCall.frame.hasResult)


\* ------------------------------------------------------------------
\* Claims about update, delete and getRandom, one caller at a time.

\* The last call is one of the operation that returned the error.
Returned(op, err) ==
    /\ lastCall.frame.op = op
    /\ lastCall.frame.pc = "done"
    /\ lastCall.frame.err = err

\* The value a column has after an update: the request's if the request
\* gives one, else the stored one.
Requested(given, value, stored) == IF given THEN value ELSE stored

\* The row is what the update request makes of the stored row.
UpdatedFrom(new, old, upd) ==
    /\ new.id = old.id
    /\ new.created_at = old.created_at
    /\ new.word = Requested(upd.Word.Valid, upd.Word.String, old.word)
    /\ new.source = Requested(upd.Source.Valid, upd.Source.String, old.source)
    /\ new.date_learned =
           Requested(upd.DateLearned.Valid, upd.DateLearned.String, old.date_learned)
    /\ new.part_of_speech =
           Requested(upd.PartOfSpeech.Valid, upd.PartOfSpeech, old.part_of_speech)
    /\ new.example_sentence =
           Requested(upd.ExampleSentence.Valid, upd.ExampleSentence,
                     old.example_sentence)
    /\ new.tags = Requested(~upd.Tags.IsNil, MarshalTags(upd.Tags), old.tags)

\* C15: a successful update by a caller without interference leaves every
\* field the request does not give at its stored value, id and creation
\* time included, sets every field the request gives, an empty value
\* included, to the request's value, returns the record so stored, and
\* changes no other record.
C15_UpdateKeepsAbsentFields ==
    Returned("Update", NoError) =>
        \E old \in lastCall.before.words, new \in db.words :
            /\ old.id = lastCall.frame.id
            /\ UpdatedFrom(new, old, lastCall.frame.upd)
            /\ lastCall.frame.out = scanWord(new)
            /\ db.words \ {new} = lastCall.before.words \ {old}

\* An update that set the source of one of two stored records to the empty
\* string has succeeded.
C15_Witness ==
    /\ Returned("Update", NoError)
    /\ lastCall.frame.upd.Source = StringPtr(<<>>)
    /\ Cardinality(lastCall.before.words) = 2
    /\ \E r \in lastCall.before.words :
           r.id = lastCall.frame.id /\ r.source # <<>>

\* The store holds no row with the id.
Absent(d, id) == \A r \in d.words : r.id # id

\* The rows of the store with the id.
RowsWithID(d, id) == {r \in d.words : r.id = id}

\* C18: delete of a stored id succeeds, removes exactly the record with
\* that id, so that getByID of it then fails with the not-found error, and
\* leaves every other record as it was; delete of an id the store does not
\* hold fails with the not-found error and leaves the store as it was; so
\* of two successive deletes of one id the second fails with not-found.
C18_DeleteRemovesExactlyThat ==
    (lastCall.frame.op = "Delete" /\ lastCall.frame.pc = "done") =>
        /\ IF Absent(lastCall.before, lastCall.frame.id)
           THEN lastCall.frame.err = ErrNoRows /\ db = lastCall.before
           ELSE /\ lastCall.frame.err = NoError
                /\ Cardinality(RowsWithID(lastCall.before, lastCall.frame.id)) = 1
                /\ db = [lastCall.before EXCEPT
                             !.words = @ \ RowsWithID(lastCall.before,
                                                     lastCall.frame.id)]
                /\ GetByID(db, lastCall.frame.id).err = ErrNoRows
        /\ (/\ prevCall.op = "Delete" /\ prevCall.id = lastCall.frame.id
            /\ prevCall.err = NoError)
               => lastCall.frame.err = ErrNoRows

\* One of two stored records was deleted, and the delete of its id again
\* failed with the not-found error; the other record is still stored.
C18_Witness ==
    /\ Returned("Delete", ErrNoRows)
    /\ prevCall.op = "Delete" /\ prevCall.err = NoError
    /\ prevCall.id = lastCall.frame.id
    /\ Cardinality(prevCall.before.words) = 2
    /\ Cardinality(db.words) = 1

\* C19: getRandom on an empty store fails with the not-found error; on a
\* non-empty store it succeeds and returns one of the records the store
\* holds; it never changes the store.
C19_RandomIsAStoredWord ==
    (lastCall.frame.op = "GetRandom" /\ lastCall.frame.pc = "done") =>
        /\ db = lastCall.before
        /\ IF lastCall.before.words = {}
           THEN lastCall.frame.err = ErrNoRows
           ELSE /\ lastCall.frame.err = NoError
                /\ \E r \in lastCall.before.words :
                       lastCall.frame.out = scanWord(r)

\* getRandom on a store of two records returned the one created last.
C19_Witness ==
    /\ Returned("GetRandom", NoError)
    /\ Cardinality(db.words) = 2
    /\ \A r \in db.words : r.id <= lastCall.frame.out.ID

\* ------------------------------------------------------------------
\* Claims about update and ids, callers interleaved.

\* Caller p's update takes its write step.
UpdateWrites(p) ==
    /\ At(p, "Update", "write")
    /\ procs'[p].op = "Update" /\ procs'[p].pc = "done"
    /\ "Update" \in Range(procs'[p].calls)

\* repo.Update called with a word whose id the store does not hold returns
\* ErrNoRows.
C16_DirectUpdateOfMissingFails ==
    \A id \in 1..MaxClock, text \in {t_eph, t_ubi} :
        Absent(db, id) =>
            Update(db, [NoWord EXCEPT !.ID = id, !.Word = text]).err = ErrNoRows

\* A service update whose row is gone when it writes returns ErrNoRows.
C16_LateUpdateOfMissingFails ==
    \A p \in Callers :
        (UpdateWrites(p) /\ Absent(db, procs[p].id)) => procs'[p].err = ErrNoRows

\* C16: an update of a record whose id the store does not hold at the
\* moment of the write fails with the not-found error and never reports
\* success, both for the repository's update called with an unknown id and
\* for a service update whose record another caller deleted between the
\* load and the write.
C16_UpdateOfMissingFails ==
    [][C16_DirectUpdateOfMissingFails /\ C16_LateUpdateOfMissingFails]_vars

\* Caller p's update returns in this step, from its duplicate check or from
\* its write, and the text it sets is held by a row other than its own.
UpdateMeetsDuplicate(p) ==
    /\ procs[p].op = "Update" /\ procs[p].pc \in {"precheck", "write"}
    /\ procs'[p].op = "Update" /\ procs'[p].pc = "done"
    /\ procs[p].upd.Word.Valid
    /\ ~Absent(db, procs[p].id)
    /\ \E r \in db.words :
           r.id # procs[p].id /\ r.word = procs[p].upd.Word.String

\* Such an update fails and changes no row.
C17_DuplicateUpdateFails ==
    [][\A p \in Callers :
          UpdateMeetsDuplicate(p) => procs'[p].err # NoError /\ db' = db]_vars

\* C17: a service update that changes the word text to one a different
\* stored record holds fails with the conflict error and leaves both
\* records unchanged, whether the duplicate check finds the other record
\* or, after a race with another caller, the write is refused by the
\* uniqueness constraint.
C17_DuplicateUpdateConflicts ==
    [][\A p \in Callers :
          UpdateMeetsDuplicate(p) =>
              procs'[p].err = ErrAlreadyExists /\ db' = db]_vars

\* The ids the store holds.
IDs(d) == {r.id : r \in d.words}

\* Every stored id is positive, no two rows share one, and none is above
\* the largest id assigned so far.
IdsWithinSequence(d) ==
    /\ \A r \in d.words : r.id > 0 /\ r.id <= d.seq
    /\ Cardinality(IDs(d)) = Cardinality(d.words)

\* Caller p's create, or its import, returns from a successful insert.
Inserted(p) ==
    /\ procs[p].op \in {"Create", "ImportCSV"} /\ procs[p].pc = "insert"
    /\ procs'[p].calls = Append(procs[p].calls, "Create")
    /\ IF procs[p].op = "Create" THEN procs'[p].err = NoError
       ELSE procs'[p].result.Imported = procs[p].result.Imported + 1

\* C20: over all interleavings of create, update, delete and importCSV,
\* the largest id assigned never decreases, every id a step adds to the
\* store is positive and greater than every id assigned before, ids of
\* deleted records included, a successful insert adds exactly one such id
\* (the one a create returns), and no step changes the id of a stored
\* record: a row that stays keeps its id and creation time, and an update
\* leaves the set of ids as it was.
C20_IdsGrowAndStay ==
    [][/\ IdsWithinSequence(db')
       /\ db'.seq >= db.seq
       /\ \A id \in IDs(db') \ IDs(db) : id > 0 /\ id > db.seq
       /\ \A p \in Callers :
              Inserted(p) =>
                  /\ Cardinality(IDs(db') \ IDs(db)) = 1
                  /\ IDs(db) \subseteq IDs(db')
                  /\ procs[p].op = "Create" =>
                         IDs(db') \ IDs(db) = {procs'[p].out.ID}
       /\ \A r \in db.words, n \in db'.words :
              n.id = r.id => n.created_at = r.created_at
       /\ \A p \in Callers : UpdateWrites(p) => IDs(db') = IDs(db)]_vars

\* A create that followed the delete of the record with id 1 returned id 2:
\* the store holds one record, and not under the deleted id.
C20_Witness ==
    \E p \in Callers :
        /\ At(p, "Create", "done") /\ procs[p].err = NoError
        /\ procs[p].out.ID = 2
        /\ IDs(db) = {2}

\* ------------------------------------------------------------------
\* Claims about the dictionary lookup.

\* A dictionary call has returned after asking the source.
Asked == lookup.op \in {"Lookup", "GetDefinition"} /\ lookup.requests # <<>>

\* The source answered with the not-found status, or with the success
\* status and an empty list of entries.
SourceKnowsNone ==
    /\ lookup.reply.err = NoError
    /\ \/ lookup.reply.status = StatusNotFound
       \/ /\ lookup.reply.status = StatusOK
          /\ lookup.reply.body.valid /\ lookup.reply.body.entries = <<>>

\* The source could not be reached, or answered with a status that is
\* neither success nor not-found.
TransportFailed ==
    \/ lookup.reply.err # NoError
    \/ lookup.reply.status \notin {StatusOK, StatusNotFound}

\* C21: a lookup fails with the source's not-found error exactly when the
\* source answers with the not-found status or with success and no entry;
\* a connection failure, a timeout or another non-success status fails
\* with an error that is not the not-found error; success with at least
\* one entry is no error.
C21_NotFoundInSourceExactly ==
    Asked =>
        /\ lookup.err = ErrWordNotFound <=> SourceKnowsNone
        /\ TransportFailed => lookup.err \in {ErrFetch, ErrStatus}
        /\ (/\ lookup.reply.err = NoError /\ lookup.reply.status = StatusOK
            /\ lookup.reply.body.valid /\ lookup.reply.body.entries # <<>>)
               => lookup.err = NoError

\* A lookup that was answered with success and no entry failed with the
\* not-found error.
C21_Witness ==
    /\ lookup.op = "Lookup" /\ lookup.requests # <<>>
    /\ lookup.reply.status = StatusOK /\ lookup.reply.body = Entries(<<>>)
    /\ lookup.err = ErrWordNotFound

\* The first entry of the reply of a lookup that succeeded.
FirstEntry == lookup.reply.body.entries[1]

\* The text of the first variant, in list order, whose text is not empty;
\* empty if there is none.
RECURSIVE FirstText(_)
FirstText(phonetics) ==
    IF phonetics = <<>> THEN <<>>
    ELSE IF Head(phonetics).Text # <<>> THEN Head(phonetics).Text
    ELSE FirstText(Tail(phonetics))

\* C22: the phonetic of the response is the first entry's own phonetic if
\* that is not empty, and else the text of the first variant of the first
\* entry whose text is not empty, whichever variant supplies the audio URL.
C22_PhoneticBackfilled ==
    (Asked /\ lookup.err = NoError) =>
        lookup.resp.Phonetic =
            IF FirstEntry.Phonetic # <<>> THEN FirstEntry.Phonetic
            ELSE FirstText(FirstEntry.Phonetics)

\* The part of C22 the scan does give: an own phonetic is returned as it
\* is, and a phonetic that was filled in is the text of a variant.
C22_OwnPhoneticKept ==
    (Asked /\ lookup.err = NoError) =>
        /\ FirstEntry.Phonetic # <<>> => lookup.resp.Phonetic = FirstEntry.Phonetic
        /\ lookup.resp.Phonetic \in
               {FirstEntry.Phonetic, FirstText(FirstEntry.Phonetics), <<>>}

\* The source URLs of the entries that are not empty.
SourceURLsOf(entries) ==
    {entries[i].SourceURL : i \in 1..Len(entries)} \ {<<>>}

\* The place of the first entry with the source URL.
FirstSeen(entries, url) ==
    CHOOSE i \in 1..Len(entries) :
        /\ entries[i].SourceURL = url
        /\ \A j \in 1..(i - 1) : entries[j].SourceURL # url

\* C23: the source URLs of the response are those of all entries of the
\* reply: every source URL that is not empty, each once, in the order in
\* which they first occur.
C23_SourceURLsOfAllEntries ==
    (Asked /\ lookup.err = NoError) =>
        /\ Range(lookup.resp.SourceURLs) = SourceURLsOf(lookup.reply.body.entries)
        /\ Len(lookup.resp.SourceURLs) =
               Cardinality(SourceURLsOf(lookup.reply.body.entries))
        /\ \A i, j \in 1..Len(lookup.resp.SourceURLs) :
               i < j => FirstSeen(lookup.reply.body.entries, lookup.resp.SourceURLs[i])
                        < FirstSeen(lookup.reply.body.entries,
                                    lookup.resp.SourceURLs[j])

\* Three entries, the third with the source URL of the first, the second
\* with another: the response holds the two URLs, the first entry's first.
C23_Witness ==
    /\ Asked /\ lookup.err = NoError
    /\ Len(lookup.reply.body.entries) = 3
    /\ lookup.reply.body.entries[1].SourceURL = u_2
    /\ lookup.reply.body.entries[2].SourceURL = u_1
    /\ lookup.reply.body.entries[3].SourceURL = u_2
    /\ lookup.resp.SourceURLs = <<u_2, u_1>>

\* The call for a definition has returned, and the word was stored when it
\* was loaded.
DefinitionOfStored ==
    /\ lookup.op = "GetDefinition" /\ lookup.pc = "done"
    /\ ~Absent(lookup.before, lookup.id)

\* getDefinition of an id the catalog does not hold at the load fails with
\* the catalog's not-found error, and no request to the dictionary is issued.
AbsentIsCatalogNotFound ==
    (lookup.op = "GetDefinition" /\ Absent(lookup.before, lookup.id)) =>
        /\ lookup.pc = "done"
        /\ lookup.err = ErrNoRows /\ lookup.requests = <<>>
        /\ lookup.answer = GetWordDefinition(NoError, ErrNoRows)

\* C24: getDefinition of an id the catalog does not hold fails with the
\* catalog's not-found error and no request to the dictionary is issued;
\* for a stored word the source does not know (it answers a request for it
\* with the not-found status or with no entry) it fails with the source's
\* not-found error; the two errors differ, and so does what the caller of
\* the API is answered.
C24_CatalogAndSourceNotFoundDiffer ==
    /\ AbsentIsCatalogNotFound
    /\ (DefinitionOfStored /\ SourceKnowsNone) =>
           /\ lookup.err = ErrWordNotFound
           /\ lookup.answer = GetWordDefinition(NoError, ErrWordNotFound)
    /\ ErrNoRows # ErrWordNotFound
    /\ GetWordDefinition(NoError, ErrNoRows)
           # GetWordDefinition(NoError, ErrWordNotFound)

\* The part of C24 the code does give: the first part as it is, and the
\* second for the stored words whose URL the request can be made of; for
\* the others the call fails before a request, with another error.
C24_DifferWhenRequestIsMade ==
    /\ AbsentIsCatalogNotFound
    /\ (DefinitionOfStored /\ SourceKnowsNone) =>
           IF InvalidURL(lookup.word)
           THEN /\ lookup.err = ErrCreateRequest /\ lookup.requests = <<>>
                /\ lookup.answer.status = StatusInternalServerError
           ELSE /\ lookup.err = ErrWordNotFound
                /\ lookup.requests = <<GetByID(lookup.before, lookup.id).word.Word>>
                /\ lookup.answer = GetWordDefinition(NoError, ErrWordNotFound)
    /\ GetWordDefinition(NoError, ErrNoRows)
           # GetWordDefinition(NoError, ErrWordNotFound)

\* ------------------------------------------------------------------
\* Claims about the stored words over all calls.

\* Every stored word has a word text.
C25_WordTextNonEmpty == \A r \in db.words : r.word # <<>>

\* C25: in every state reachable through create, update, importCSV and
\* delete calls of the service, every stored word has a non-empty word
\* text, a non-empty source and a non-empty date learned.
C25_RequiredFieldsNonEmpty ==
    \A r \in db.words :
        r.word # <<>> /\ r.source # <<>> /\ r.date_learned # <<>>

\* Callers p and o have both returned from successful updates of one
\* record, p's setting the word text only and o's the source only.
UpdatedDisjointly(p, o) ==
    /\ At(p, "Update", "done") /\ At(o, "Update", "done")
    /\ procs[p].err = NoError /\ procs[o].err = NoError
    /\ procs[p].id = procs[o].id
    /\ procs[p].upd.Word.Valid /\ ~procs[p].upd.Source.Valid
    /\ procs[o].upd.Source.Valid /\ ~procs[o].upd.Word.Valid

\* C26: when two updates of one record that set disjoint fields have both
\* returned successfully, however their steps interleaved, the stored
\* record holds both changes: an update leaves a field it does not set at
\* the value stored when it writes.
C26_DisjointUpdatesBothKept ==
    \A p, o \in Callers :
        UpdatedDisjointly(p, o) =>
            \E r \in db.words :
                /\ r.id = procs[p].id
                /\ r.word = procs[p].upd.Word.String
                /\ r.source = procs[o].upd.Source.String

\* ------------------------------------------------------------------
\* Claims about the end of an import.

\* A pass of the row loop: the import is at the top of the loop, and after
\* the step it is in the loop still.
LoopPass ==
    /\ ImpAt("row")
    /\ lastCall'.frame.lineNum = lastCall.frame.lineNum + 1
    /\ lastCall'.frame.op = "ImportCSV"
    /\ lastCall'.frame.pc \in {"row", "precheck", "insert"}

\* C27: the row loop of an import ends on every input stream, also when a
\* read fails with an error other than the end of the input: every pass
\* that stays in the loop has consumed input, so that the passes are at
\* most as many as the input is long.  (A pass that leaves the reader where
\* it was is followed by the same pass again, without end, each adding its
\* entry to the errors.)
C27_EveryPassConsumesInput ==
    [][LoopPass =>
          Len(lastCall'.frame.reader.input) < Len(lastCall.frame.reader.input)]_vars

\* The number of line breaks of a text.
Newlines(data) == Cardinality({i \in 1..Len(data) : data[i] = "\n"})

\* An import has no more entries and imported rows than its input has lines.
C27_RowsWithinInput ==
    lastCall.frame.op = "ImportCSV" =>
        lastCall.frame.result.Imported + Len(lastCall.frame.result.Errors)
            <= Newlines(lastCall.frame.stream.data) + 1

\* ------------------------------------------------------------------
\* Claims about imports that meet other writers of the same word.

\* The lines of the data rows of a stream that hold the word text.
LinesOf(stream, text) ==
    {DataRows(stream)[i].line :
        i \in {k \in 1..Len(DataRows(stream)) :
                  DataRows(stream)[k].record[1] = text}}

\* The call handles the word text: a create of it, or an import whose
\* stream has a row of it.
Handles(frame, text) ==
    \/ frame.op = "Create" /\ frame.req.Word = text
    \/ frame.op = "ImportCSV" /\ LinesOf(frame.stream, text) # {}

\* The messages of the entries of an import for the rows of the word text.
EntriesFor(frame, text) ==
    {frame.result.Errors[k].msg :
        k \in {n \in 1..Len(frame.result.Errors) :
                  frame.result.Errors[n].line \in LinesOf(frame.stream, text)}}

\* The call stored the word: the create succeeded, the import has no entry
\* for the row.
Took(frame, text) ==
    IF frame.op = "Create" THEN frame.err = NoError
    ELSE EntriesFor(frame, text) = {}

\* The call met the word stored: the create failed with the error of the
\* duplicate check or of the constraint, the import has such an entry.
Conflicted(frame, text) ==
    IF frame.op = "Create" THEN frame.err \in {ErrAlreadyExists, ErrUniqueWord}
    ELSE /\ EntriesFor(frame, text) # {}
         /\ EntriesFor(frame, text) \subseteq {ErrAlreadyExists, ErrUniqueWord}

\* The words an import counts as imported are those it has no entry for,
\* and it has returned a result and no error.
ImportAccounts(frame) ==
    frame.op = "ImportCSV" =>
        /\ frame.err = NoError /\ frame.hasResult
        /\ frame.result.Skipped = Len(frame.result.Errors)
        /\ frame.result.Imported =
               Cardinality({text \in {t_eph, t_ubi} :
                               Handles(frame, text) /\ Took(frame, text)})

\* C28: when two imports, or an import and a create, have handled the same
\* word text with their steps interleaved in any way, the word is stored
\* once, exactly one of the two calls stored it (the import counts it as
\* imported, the create succeeded), the other met the conflict (the import
\* skipped the row with an entry, the create failed with the error of the
\* duplicate check or of the constraint), and no import returned an error.
C28_RacingImportStoresOnce ==
    \A p, o \in Callers, text \in {t_eph, t_ubi} :
        ( /\ p # o
          /\ procs[p].pc = "done" /\ procs[o].pc = "done"
          /\ procs[p].op = "ImportCSV"
          /\ Handles(procs[p], text) /\ Handles(procs[o], text) )
        => /\ Cardinality({r \in db.words : r.word = text}) = 1
           /\ Took(procs[p], text) # Took(procs[o], text)
           /\ ~Took(procs[p], text) => Conflicted(procs[p], text)
           /\ ~Took(procs[o], text) => Conflicted(procs[o], text)
           /\ ImportAccounts(procs[p]) /\ ImportAccounts(procs[o])

\* Two imports of one stream have returned; one of them was refused a row
\* by the constraint at its insert, after its duplicate check had passed,
\* and skipped it.
C28_Witness ==
    \E p, o \in Callers :
        /\ p # o
        /\ At(p, "ImportCSV", "done") /\ At(o, "ImportCSV", "done")
        /\ ErrUniqueWord \in EntriesFor(procs[p], t_eph)
        /\ Took(procs[o], t_eph)
        /\ procs[p].err = NoError

\* ------------------------------------------------------------------
\* Claims about a list with an offset and no limit.

\* C29: the offset does not need a limit: a list with offset O > 0 and no
\* limit returns no error, and its result is the sorted sequence of the
\* matching words without its first O.
C29_OffsetWithoutLimit ==
    (q.op = "List" /\ q.filter.Limit = 0 /\ q.filter.Offset > 0) =>
        /\ q.err = NoError
        /\ IsSorted(q.words)
        /\ q.words = SubSeq(List(db, Unpaged(q.filter)).words,
                            q.filter.Offset + 1,
                            Len(List(db, Unpaged(q.filter)).words))

\* What the list does return for an offset above zero with no limit: the
\* error of the query and no words, whatever is stored.
C29_OffsetWithoutLimitFails ==
    (q.op = "List" /\ q.filter.Limit = 0 /\ q.filter.Offset > 0) =>
        q.err = ErrQuerySyntax /\ q.words = <<>>

\* ------------------------------------------------------------------
\* Claims about the result of an import that no other writer meets.

\* The data row parses and has its three required fields.
ValidRow(stream, row) == row.err = NoError /\ ~LacksField(stream, row)

\* The data rows of a stream that are valid and the first valid ones of
\* their word text, by their place among the data rows.
FirstValidRows(stream, rows) ==
    {i \in 1..Len(rows) :
        /\ ValidRow(stream, rows[i])
        /\ \A j \in 1..(i - 1) :
               ValidRow(stream, rows[j]) =>
                   FieldOf(stream, rows[j], n_word) # FieldOf(stream, rows[i], n_word)}

\* The rows an import into a store is to import: the first valid ones of a
\* word text the store did not hold.
RowsToImport(stream, rows, before) ==
    {i \in FirstValidRows(stream, rows) :
        \A r \in before.words : r.word # FieldOf(stream, rows[i], n_word)}

\* What a returned import shows of the rows it was to import and to skip:
\* the counts, one entry per skipped row in the order of the input, counted
\* from 2 for the first data row, and the words the store has gained.
ResultAccountsFor(call, rows, toImport) ==
    /\ call.frame.result.Imported = Cardinality(toImport)
    /\ call.frame.result.Skipped = Len(rows) - Cardinality(toImport)
    /\ call.frame.result.Imported + call.frame.result.Skipped = Len(rows)
    /\ Len(call.frame.result.Errors) = call.frame.result.Skipped
    /\ {call.frame.result.Errors[k].line : k \in 1..Len(call.frame.result.Errors)}
           = {i + 1 : i \in (1..Len(rows)) \ toImport}
    /\ \A k, l \in 1..Len(call.frame.result.Errors) :
           k < l => call.frame.result.Errors[k].line < call.frame.result.Errors[l].line
    /\ call.before.words \subseteq db.words
    /\ Cardinality(db.words) =
           Cardinality(call.before.words) + call.frame.result.Imported
    /\ {r.word : r \in db.words \ call.before.words}
           = {FieldOf(call.frame.stream, rows[i], n_word) : i \in toImport}

\* C30: when an import that no other writer meets returns its result,
\* imported + skipped is the number of data records after the header, the
\* errors hold one entry per skipped row in the order of the input with
\* strictly increasing line numbers, the store has grown by exactly the
\* imported rows, and a word text that the input repeats is imported at its
\* first valid row and skipped at every later one.
C30_ResultAccountsForEveryRow ==
    ImportReturned =>
        ResultAccountsFor(lastCall, DataRows(lastCall.frame.stream),
                          RowsToImport(lastCall.frame.stream,
                                       DataRows(lastCall.frame.stream),
                                       lastCall.before))

\* An import into the empty store of an input that holds one word text on
\* two valid rows has returned: one imported, one skipped, with an entry for
\* the second row.
C30_Witness ==
    /\ ImportReturned
    /\ lastCall.before.words = {}
    /\ lastCall.frame.stream.data =
           Header3 \o Line(<<t_eph, t_Bk, t_15>>) \o Line(<<t_eph, t_Art, t_20>>)
    /\ lastCall.frame.result.Imported = 1 /\ lastCall.frame.result.Skipped = 1
    /\ lastCall.frame.result.Errors = <<[line |-> 3, msg |-> ErrAlreadyExists]>>
    /\ {r.source : r \in db.words} = {t_Bk}
====
